---- MODULE Spec2Model ----
(***************************************************************************)
(* Model of the Uprooted interception core:                                *)
(*   - PluginLoader (core/pluginLoader.ts): register / start / stop /      *)
(*     startAll / emit / installPatch / removeHandlers                     *)
(*   - bridge proxy (api/bridge.ts): createBridgeProxy, installBridgeProxy *)
(* JavaScript values are encoded as tuples of strings so that values of    *)
(* different JavaScript types stay comparable.                             *)
(***************************************************************************)
EXTENDS Integers, Sequences, FiniteSets, TLC

\* ------------------------------------------------------------------ bounds
\* longest handler list the model lets a key grow to
MaxChain == 3
\* lifecycle calls (start / stop / startAll) that may be in flight together
MaxTasks == 2
\* proxies the model lets the host stack around one bridge object
MaxDepth == 2
\* assignments to one slot that the model counts
MaxWrites == 2
\* times the model lets sendBeacon be bound again around itself
MaxBinds == 2

VARIABLES
    plugins,        \* PluginLoader.plugins: descriptors in registration order
    activePlugins,  \* PluginLoader.activePlugins
    eventHandlers,  \* PluginLoader.eventHandlers: key -> handler list
    settings,       \* PluginLoader.settings.plugins: name -> "on" | "off" | "none"
    cssInjected,    \* ids of the <style> elements injectCss has in the page
    tasks,          \* suspended async calls of start / stop / startAll
    lastDone,       \* the lifecycle call that completed last, kept until
                    \* another call begins (observation)
    pluginLoader,   \* bridge.ts module variable: "null" or "loader"
    installed,      \* whether installBridgeProxy has run on this page
    slots,          \* window.__nativeToWebRtc / window.__webRtcToNative
    hostWrites,     \* per slot: whether it was unset at install, how many
                    \* objects the host assigned since, and the last (observation)
    lastCall,       \* the wrapped bridge call just made (observation)
    page,           \* the settings panel's plugins page: per row the toggle
                    \* and the status badge
    net,            \* window.fetch, XMLHttpRequest.prototype.open and
                    \* navigator.sendBeacon, with the originals the intercepting
                    \* plugins saved
    disk            \* the profile's target HTML files and their backups, as the
                    \* patcher (install / uninstall) and the host leave them

vars == <<plugins, activePlugins, eventHandlers, settings, cssInjected, tasks,
          lastDone, pluginLoader, installed, slots, hostWrites, lastCall, page,
          net, disk>>

\* what neither the loader nor the bridge proxy writes
\* the page outside the loader and the panel
hostVars == <<net, disk>>
restVars == <<settings, page, hostVars>>
panelRest == <<settings, hostVars>>

loaderVars == <<plugins, activePlugins, eventHandlers, restVars, cssInjected,
                tasks, lastDone>>
bridgeVars == <<pluginLoader, installed, slots, hostWrites>>

\* ------------------------------------------------------- JavaScript values
Undefined == <<"undefined">>
JsFalse == <<"false">>
JsTrue == <<"true">>
JsZero == <<"number", "0">>
JsFortyTwo == <<"number", "42">>

\* what the host's real bridge method returns
OrigResult(obj, method, args) == <<"result", obj, method>> \o args[1]

\* the arguments the host calls bridge methods with
CallArgs == {<<JsTrue>>, <<JsFalse>>}

\* ------------------------------------------------------------ descriptors
Bridges == {"nativeToWebRtc", "webRtcToNative"}
Methods == {"setMute", "kick"}

NoPatch ==
    [bridge |-> "", method |-> "", before |-> "none", replace |-> "none",
     after |-> FALSE]

\* before vetoes setMute(true); after observes
PatchVeto ==
    [bridge |-> "webRtcToNative", method |-> "setMute", before |-> "vetoTrue",
     replace |-> "none", after |-> TRUE]

\* replace substitutes 42; after observes
PatchReplace ==
    [bridge |-> "webRtcToNative", method |-> "setMute", before |-> "none",
     replace |-> "const42", after |-> TRUE]

\* before returns 0 (falsy, not false); after observes
PatchObserve ==
    [bridge |-> "webRtcToNative", method |-> "setMute", before |-> "zero",
     replace |-> "none", after |-> TRUE]

\* on the other bridge: before negates its argument in place (it is handed
\* the event's own args array) and returns nothing; after observes
PatchKick ==
    [bridge |-> "nativeToWebRtc", method |-> "kick", before |-> "flip",
     replace |-> "none", after |-> TRUE]

PluginA ==
    [name |-> "A", patches |-> <<PatchVeto>>, css |-> TRUE, start |-> TRUE,
     stop |-> TRUE]
PluginB ==
    [name |-> "B", patches |-> <<PatchReplace>>, css |-> FALSE, start |-> TRUE,
     stop |-> TRUE]
PluginC ==
    [name |-> "C", patches |-> <<PatchObserve, PatchKick>>, css |-> TRUE,
     start |-> FALSE, stop |-> FALSE]

Catalogue == {PluginA, PluginB, PluginC}

\* Patches whose before does more than compute a result.
\* before throws
PatchThrows ==
    [bridge |-> "webRtcToNative", method |-> "setMute", before |-> "throws",
     replace |-> "none", after |-> TRUE]

\* before calls window.__webRtcToNative.setMute(true) itself
PatchNested ==
    [bridge |-> "webRtcToNative", method |-> "kick", before |-> "callsSetMute",
     replace |-> "none", after |-> TRUE]

\* before calls loader.start("K") / loader.stop("K") without awaiting it
PatchStarter ==
    [bridge |-> "webRtcToNative", method |-> "kick", before |-> "startsK",
     replace |-> "none", after |-> FALSE]
PatchStopper ==
    [bridge |-> "webRtcToNative", method |-> "kick", before |-> "stopsK",
     replace |-> "none", after |-> FALSE]

\* before negates its argument in place, on the key the others patch
PatchFlip ==
    [bridge |-> "webRtcToNative", method |-> "kick", before |-> "flip",
     replace |-> "none", after |-> TRUE]

\* before returns 0; after observes
PatchWatch ==
    [bridge |-> "webRtcToNative", method |-> "kick", before |-> "zero",
     replace |-> "none", after |-> TRUE]

Hookless(name, patch) ==
    [name |-> name, patches |-> <<patch>>, css |-> FALSE, start |-> FALSE,
     stop |-> FALSE]

\* the plugins registered where dispatch is studied, in registration order
DispatchPlugins ==
    <<Hookless("V", PatchVeto), Hookless("T", PatchThrows),
      Hookless("N", PatchNested), Hookless("S", PatchStarter),
      Hookless("X", PatchStopper), Hookless("F", PatchFlip),
      Hookless("K", PatchWatch)>>
DispatchNames == {DispatchPlugins[i].name : i \in 1..Len(DispatchPlugins)}

\* another descriptor that carries the name "A"
PluginA2 ==
    [name |-> "A", patches |-> <<>>, css |-> FALSE, start |-> FALSE,
     stop |-> FALSE]

\* the descriptors offered to register when names may clash
Descriptors == Catalogue \cup {PluginA2}
Names == {d.name : d \in Catalogue}

\* names a caller may pass to start / stop: the catalogue's and an unknown one
CallNames == Names \cup {"ghost"}

\* the settings snapshot the loader is constructed with: an enabled entry,
\* a disabled entry and a name with no entry
InitialSettings ==
    [n \in Names |-> CASE n = "A" -> "on" [] n = "B" -> "off" [] OTHER -> "none"]

\* ------------------------------------------------------------- Map helpers
\* this.plugins.has(name)
Has(name) == \E i \in 1..Len(plugins) : plugins[i].name = name

\* this.plugins.get(name)
Get(name) == plugins[CHOOSE i \in 1..Len(plugins) : plugins[i].name = name]

RECURSIVE SumLen(_, _)
SumLen(map, keys) ==
    IF keys = {} THEN 0
    ELSE LET k == CHOOSE x \in keys : TRUE
         IN Len(map[k]) + SumLen(map, keys \ {k})

\* number of handlers in a registry
HandlerCount(map) == SumLen(map, DOMAIN map)

\* ---------------------------------------------------------- installPatch
\* (mutant) handlers are filed by event name alone
KeyByEventName(eventName, method) == eventName

\* `${eventName}:${method}`
Key(eventName, method) == eventName \o ":" \o method

EventName(bridge) ==
    IF bridge = "nativeToWebRtc" THEN "bridge:nativeToWebRtc"
    ELSE "bridge:webRtcToNative"

\* the generated handler closure: its patch and its __plugin tag
MakeHandler(pluginName, patch) == [plugin |-> pluginName, patch |-> patch]

InstallPatch(map, pluginName, patch) ==
    LET key == Key(EventName(patch.bridge), patch.method)
        handlers == IF key \in DOMAIN map THEN map[key] ELSE <<>>
        pushed == Append(handlers, MakeHandler(pluginName, patch))
    IN [k \in DOMAIN map \cup {key} |-> IF k = key THEN pushed ELSE map[k]]

RECURSIVE InstallPatches(_, _, _, _)
InstallPatches(map, pluginName, patches, i) ==
    IF i > Len(patches) THEN map
    ELSE InstallPatches(InstallPatch(map, pluginName, patches[i]), pluginName,
                        patches, i + 1)

\* -------------------------------------------------------- removeHandlers
\* handlers.filter(h => h.__plugin !== pluginName)
RECURSIVE FilterOut(_, _)
FilterOut(handlers, pluginName) ==
    IF handlers = <<>> THEN <<>>
    ELSE LET rest == FilterOut(Tail(handlers), pluginName)
         IN IF Head(handlers).plugin # pluginName
            THEN <<Head(handlers)>> \o rest
            ELSE rest

\* (mutant) the filtered list is stored back even when it is empty
RemoveHandlersKeepsKeys(map, pluginName) ==
    [k \in DOMAIN map |-> FilterOut(map[k], pluginName)]

RemoveHandlers(map, pluginName) ==
    LET kept == {k \in DOMAIN map : Len(FilterOut(map[k], pluginName)) # 0}
    IN [k \in kept |-> FilterOut(map[k], pluginName)]

\* ------------------------------------------------------------ css.ts
InjectCss(css, id) == css \cup {id}
RemoveCss(css, id) == css \ {id}

\* ------------------------------------------ start: the part ahead of the await
\* start returns at once: unknown name, or already active
StartIsNoop(name) == ~Has(name) \/ name \in activePlugins

\* (mutant) the patches are not installed ahead of the hook
StartInstallsLater(map, name) == map

\* the synchronous part of start, up to `await plugin.start?.()`
StartInstalls(map, name) ==
    InstallPatches(map, name, Get(name).patches, 1)

StartCss(css, name) ==
    IF Get(name).css THEN InjectCss(css, name) ELSE css

\* (mutant) stop without the test of the active set
StopUnguarded(name) == ~Has(name)

\* stop returns at once: unknown name, or not active
StopIsNoop(name) == ~Has(name) \/ name \notin activePlugins

\* What one synchronous bridge call works on: the registry, the injected
\* styles, the wired loader, and the start / stop calls that plugin functions
\* made while it ran (each suspended at its await when the call returns).
World(map, css, loader) ==
    [map |-> map, css |-> css, loader |-> loader, calls |-> <<>>]

\* loader.start(name) called from inside a dispatch: start up to its await
StartWithin(w, name) ==
    IF StartIsNoop(name) THEN w
    ELSE [w EXCEPT !.map = StartInstalls(w.map, name),
                   !.css = StartCss(w.css, name),
                   !.calls = Append(w.calls, [op |-> "start", name |-> name])]

\* loader.stop(name) called from inside a dispatch: stop up to its await;
\* removeHandlers is behind the await
StopWithin(w, name) ==
    IF StopIsNoop(name) THEN w
    ELSE [w EXCEPT !.calls = Append(w.calls, [op |-> "stop", name |-> name])]

\* ------------------------------------------------- plugin-supplied functions
\* patch.before(args): the value it returns
BeforeResult(patch, args) ==
    CASE patch.before = "vetoTrue" ->
             IF args[1] = JsTrue THEN JsFalse ELSE Undefined
      [] patch.before = "zero" -> JsZero
      [] OTHER -> Undefined

\* patch.before(args): the array it was handed, as it leaves it
BeforeArgs(patch, args) ==
    IF patch.before = "flip"
    THEN <<IF args[1] = JsTrue THEN JsFalse ELSE JsTrue>>
    ELSE args

\* (mutant) before is handed a copy of the array: patch.before([...event.args])
BeforeGetsCopy(patch, args) == args

\* event.args once `patch.before(event.args)` has returned: before is handed
\* the event's own array, so what it did to the array is in the event
ArgsBehindBefore(patch, args) == BeforeArgs(patch, args)

\* patch.replace(...args): the value it returns
ReplaceResult(patch, args) ==
    IF patch.replace = "const42" THEN JsFortyTwo ELSE Undefined

\* One entry of a call's log: which function ran, with what, returning what.
\* ev is "emit" (the trampoline's emit call), "handler" (emit invoking the
\* handler at position pos of the key's list; res tells how it left
\* event.cancelled), "before" / "replace" / "after" (the patch's functions)
\* "original" (the host's own method), "cancelled" / "passed" (the event
\* as the trampoline finds it when emit returns: its args and returnValue),
\* or "nested" / "returned" (a patch function calling a bridge method itself,
\* and what that call returned). depth counts the bridge calls the entry is
\* nested in.
Entry(ev, who, patch, args, res) ==
    [ev |-> ev, who |-> who, patch |-> patch, args |-> args, res |-> res,
     pos |-> 0, depth |-> 0]

Cancelled == <<"cancelled">>
NotCancelled == <<"not cancelled">>
\* an exception instead of a value
Thrown == <<"thrown">>

Deepen(trace) == [j \in 1..Len(trace) |-> [trace[j] EXCEPT !.depth = @ + 1]]

\* ------------------------------------------------------- generated handler
\* (mutant) a veto on any falsy value: !result
IsFalsy(result) == result \in {JsFalse, Undefined, JsZero}

\* result === false
IsExactlyFalse(result) == result = JsFalse

\* the arguments the generated handler passes to patch.after
AfterResultArg(event) == event.returnValue

\* (mutant) after is skipped once replace has cancelled the event
SkipsAfterOnReplace(patch, explicitlyCancelled) ==
    patch.after /\ ~explicitlyCancelled /\ patch.replace = "none"

\* whether the generated handler calls patch.after
CallsAfter(patch, explicitlyCancelled) == patch.after /\ ~explicitlyCancelled

\* handler(event): the event as the handler leaves it, the functions it ran,
\* and whether patch.before threw (the handler has no try block)
Handler(h, event) ==
    LET patch == h.patch
        viaReplace == patch.replace # "none"
        viaBefore == ~viaReplace /\ patch.before # "none"
        threw == viaBefore /\ patch.before = "throws"
        beforeRes == BeforeResult(patch, event.args)
        explicitlyCancelled == viaBefore /\ IsExactlyFalse(beforeRes)
        e1 == IF threw THEN event
              ELSE IF viaReplace
              THEN [event EXCEPT !.returnValue = ReplaceResult(patch, event.args),
                                 !.cancelled = TRUE]
              ELSE IF viaBefore
                   THEN [event EXCEPT !.args = ArgsBehindBefore(patch, event.args),
                                      !.cancelled = @ \/ explicitlyCancelled]
                   ELSE event
        t1 == IF viaReplace
              THEN <<Entry("replace", h.plugin, patch, event.args, e1.returnValue)>>
              ELSE IF viaBefore
                   THEN <<Entry("before", h.plugin, patch, event.args,
                                IF threw THEN Thrown ELSE beforeRes)>>
                   ELSE <<>>
        t2 == IF ~threw /\ CallsAfter(patch, explicitlyCancelled)
              THEN <<Entry("after", h.plugin, patch, e1.args, AfterResultArg(e1))>>
              ELSE <<>>
    IN [event |-> e1, trace |-> t1 \o t2, threw |-> threw]

\* --------------------------------------------------------------------- emit
\* (mutant) the loop without its break
NeverBreaks(event) == FALSE

\* if (event.cancelled) break
BreaksAfter(event) == event.cancelled

\* (mutant) a loop that catches what a handler throws and goes on
CaughtInLoop(threw) == FALSE

\* emit calls handler(event) outside any try block: what a handler throws
\* ends the loop and leaves emit
Propagates(threw) == threw

\* no event: what a function that made no bridge call has to show for one
NoEvent == [method |-> "", args |-> <<>>, cancelled |-> FALSE,
            returnValue |-> Undefined]

\* (mutant) one event object per proxy, written again by every call: the
\* call in dispatch finds what the nested call left in it
OneEventPerProxy(own, nested) == IF nested = NoEvent THEN own ELSE nested

\* the event of the call in dispatch once its handler has returned: the
\* trampoline of a nested call built an object of its own
OwnEvent(own, nested) == own

\* ------------------------------------------------------- createBridgeProxy
\* A bridge value: the host's object and the proxies around it, innermost
\* first. The unset slot reads as the value whose obj is "undefined".
Raw(obj) == [obj |-> obj, layers |-> <<>>]
NoValue == Raw("undefined")
IsObject(v) == v.obj # "undefined"

CreateBridgeProxy(target, eventPrefix) ==
    [obj |-> target.obj, layers |-> Append(target.layers, eventPrefix)]

\* what the trampoline returns once emit has run
TrampolineReturns(event, originalRet) ==
    IF event.cancelled THEN event.returnValue ELSE originalRet

\* (mutant) the original is applied to the arguments of the call
CallerArgs(event, args) == args

\* original.apply(obj, event.args)
OriginalArgs(event, args) == event.args

\* ------------------------------------------------- a call through the proxy
\* emit's loop and the trampoline call each other: a handler's before may
\* call a bridge method through the wrapped slot
RECURSIVE EmitFrom(_, _, _, _, _)
RECURSIVE CallMember(_, _, _, _)

\* a before that does nothing besides computing its result
Quiet(w) == [w |-> w, trace |-> <<>>, threw |-> FALSE, event |-> NoEvent]

\* a bridge call made by patch.before, as the handler sees it: n is what the
\* call came to
NestedCall(patch, method, args, n) ==
    [w |-> n.w,
     trace |-> <<Entry("nested", method, patch, args, Undefined)>> \o
               Deepen(n.trace) \o
               <<Entry("returned", method, patch, args, n.ret)>>,
     threw |-> n.ret = Thrown,
     event |-> n.event]

\* what patch.before does besides computing its result: a bridge call of its
\* own through the wrapped slot, or a call of loader.start / loader.stop
BeforeDoes(patch, w) ==
    CASE patch.replace = "none" /\ patch.before = "callsSetMute" ->
             NestedCall(patch, "setMute", <<JsTrue>>,
                        CallMember(w, slots["webRtcToNative"].value, "setMute",
                                   <<JsTrue>>))
      [] patch.replace = "none" /\ patch.before = "startsK" ->
             [Quiet(w) EXCEPT !.w = StartWithin(w, "K")]
      [] patch.replace = "none" /\ patch.before = "stopsK" ->
             [Quiet(w) EXCEPT !.w = StopWithin(w, "K")]
      [] OTHER -> Quiet(w)

\* handler(event) for the handler h at position i: r is what the generated
\* handler does by itself and fx what its before did besides
Invoked(h, i, event, r, fx) ==
    LET threw == r.threw \/ fx.threw
        left == IF threw THEN event ELSE OwnEvent(r.event, fx.event)
        own == IF fx.threw
               THEN <<[r.trace[1] EXCEPT !.res = Thrown]>> \o fx.trace
               ELSE IF fx.trace # <<>>
                    THEN <<r.trace[1]>> \o fx.trace \o Tail(r.trace)
                    ELSE r.trace
        invoked == [Entry("handler", h.plugin, h.patch, event.args,
                          IF threw THEN Thrown
                          ELSE IF left.cancelled THEN Cancelled
                          ELSE NotCancelled)
                    EXCEPT !.pos = i]
        ran == [j \in 1..Len(own) |->
                   IF own[j].depth = 0 THEN [own[j] EXCEPT !.pos = i]
                   ELSE own[j]]
    IN [event |-> left, trace |-> <<invoked>> \o ran, w |-> fx.w,
        threw |-> threw]

Invoke(h, i, event, w) ==
    Invoked(h, i, event, Handler(h, event),
            IF Handler(h, event).threw THEN Quiet(w)
            ELSE BeforeDoes(h.patch, w))

\* the loop of emit behind the handler at position i, d being what invoking
\* that handler came to
LoopOn(key, i, trace, d) ==
    IF Propagates(d.threw)
    THEN [event |-> d.event, trace |-> trace \o d.trace, w |-> d.w,
          threw |-> TRUE]
    ELSE IF BreaksAfter(d.event)
         THEN [event |-> d.event, trace |-> trace \o d.trace, w |-> d.w,
               threw |-> FALSE]
         ELSE EmitFrom(key, i + 1, d.event, trace \o d.trace, d.w)

\* the loop of emit over the key's array, from position i on. The array is
\* the registry's own: what installPatch pushes while the loop runs is in it.
EmitFrom(key, i, event, trace, w) ==
    IF i > Len(w.map[key])
    THEN [event |-> event, trace |-> trace, w |-> w, threw |-> FALSE]
    ELSE LoopOn(key, i, trace, Invoke(w.map[key][i], i, event, w))

\* (mutant) a lookup that files an empty list under a key it does not find
LookupCreates(map, key) ==
    [k \in DOMAIN map \cup {key} |-> IF k \in DOMAIN map THEN map[k] ELSE <<>>]

\* the registry behind `this.eventHandlers.get(key)`: emit only reads it
Looked(map, key) == map

Emit(w, eventName, event) ==
    IF Key(eventName, event.method) \in DOMAIN w.map
    THEN EmitFrom(Key(eventName, event.method), 1, event, <<>>, w)
    ELSE [event |-> event, trace |-> <<>>,
          w |-> [w EXCEPT !.map = Looked(w.map, Key(eventName, event.method))],
          threw |-> FALSE]

\* the log of the trampoline's emit call, r being what emit came to
EmitLogged(eventPrefix, args, r) ==
    [event |-> r.event,
     trace |-> <<Entry("emit", eventPrefix, NoPatch, args, Undefined)>> \o
               r.trace \o
               (IF r.threw THEN <<>>
                ELSE <<Entry(IF r.event.cancelled THEN "cancelled" ELSE "passed",
                             eventPrefix, NoPatch, r.event.args,
                             r.event.returnValue)>>),
     w |-> r.w,
     threw |-> r.threw]

\* (mutant) a trampoline that emits whether or not a loader is wired
DispatchedUnwired(w, eventPrefix, event, args) ==
    EmitLogged(eventPrefix, args, Emit(w, eventPrefix, event))

\* if (pluginLoader) pluginLoader.emit(eventPrefix, event)
Dispatched(w, eventPrefix, event, args) ==
    IF w.loader = "null"
    THEN [event |-> event, trace |-> <<>>, w |-> w, threw |-> FALSE]
    ELSE EmitLogged(eventPrefix, args, Emit(w, eventPrefix, event))

\* the trampoline's return once the original has run
Applied(em, inner) ==
    [ret |-> TrampolineReturns(em.event, inner.ret),
     trace |-> em.trace \o inner.trace, w |-> inner.w, event |-> em.event]

\* the trampoline behind its emit call: what emit throws leaves the
\* trampoline as it is; a cancelled event returns event.returnValue; any
\* other goes on to the target
Trampoline(em, target, method, args) ==
    IF em.threw
    THEN [ret |-> Thrown, trace |-> em.trace, w |-> em.w, event |-> em.event]
    ELSE IF em.event.cancelled
         THEN [ret |-> TrampolineReturns(em.event, Undefined),
               trace |-> em.trace, w |-> em.w, event |-> em.event]
         ELSE Applied(em, CallMember(em.w, target, method,
                                     OriginalArgs(em.event, args)))

\* calling member `method` of bridge value v: through each proxy's trampoline,
\* outermost first, down to the host's own method
CallMember(w, v, method, args) ==
    IF v.layers = <<>>
    THEN [ret |-> OrigResult(v.obj, method, args),
          trace |-> <<Entry("original", v.obj, NoPatch, args,
                            OrigResult(v.obj, method, args))>>,
          w |-> w, event |-> NoEvent]
    ELSE Trampoline(Dispatched(w, v.layers[Len(v.layers)],
                               [method |-> method, args |-> args,
                                cancelled |-> FALSE, returnValue |-> Undefined],
                               args),
                    [obj |-> v.obj,
                     layers |-> SubSeq(v.layers, 1, Len(v.layers) - 1)],
                    method, args)

\* ------------------------------------------------------- async call records
\* before / fresh / failed: for a startAll, the active set it was called on,
\* whether the registry was empty then, and the plugins whose start hook threw
\* so far (observation)
Idle == [op |-> "idle", name |-> "", pc |-> "", idx |-> 0, solo |-> FALSE,
         before |-> {}, failed |-> {}, fresh |-> FALSE]

TaskIds == 1..MaxTasks
InFlight == {i \in TaskIds : tasks[i].op # "idle"}
NoneInFlight == InFlight = {}
FreeId == CHOOSE i \in TaskIds \ InFlight : \A j \in TaskIds \ InFlight : i <= j

\* a call that suspends takes a record; the calls already suspended are no
\* longer the only one in flight
Suspend(rec) ==
    [i \in TaskIds |->
        IF i = FreeId THEN [rec EXCEPT !.solo = NoneInFlight]
        ELSE IF tasks[i].op = "idle" THEN tasks[i]
        ELSE [tasks[i] EXCEPT !.solo = FALSE]]

NoCall == [op |-> "none", name |-> "", outcome |-> "", raised |-> FALSE,
           solo |-> FALSE, active |-> {}, count |-> 0, before |-> {},
           failed |-> {}, fresh |-> FALSE]

\* lastDone stays while the call now beginning repeats the completed one
Keep(op, name) ==
    IF lastDone.op = op /\ lastDone.name = name THEN lastDone ELSE NoCall

NoCallYet == [slot |-> "", method |-> "", args |-> <<>>, chain |-> <<>>,
              ret |-> Undefined, trace |-> <<>>]

\* the record of a completed call: what it was, how its hook settled, whether
\* it raised to its caller, whether it ran with no other call in flight, and
\* the active set and handler count it left
Done(op, name, outcome, raised, solo, active, map) ==
    [op |-> op, name |-> name, outcome |-> outcome, raised |-> raised,
     solo |-> solo, active |-> active, count |-> HandlerCount(map),
     before |-> {}, failed |-> {}, fresh |-> FALSE]

\* ----------------------------------------------------------------- register
\* (mutant) register without the has test: Map.set replaces the descriptor
RegisterOverwrites(d) ==
    IF Has(d.name)
    THEN [i \in 1..Len(plugins) |->
             IF plugins[i].name = d.name THEN d ELSE plugins[i]]
    ELSE Append(plugins, d)

\* (mutant) register deletes an entry of the same name and sets the new one
RegisterAfresh(d) ==
    Append(SelectSeq(plugins, LAMBDA q : q.name # d.name), d)

\* this.plugins after register(d)
RegisterStores(d) == IF Has(d.name) THEN plugins ELSE Append(plugins, d)

Register(d) ==
    /\ plugins' = RegisterStores(d)
    /\ lastDone' = Done("register", d.name, IF Has(d.name) THEN "noop" ELSE "ok",
                        FALSE, NoneInFlight, activePlugins, eventHandlers)
    /\ lastCall' = NoCallYet
    /\ UNCHANGED <<activePlugins, eventHandlers, restVars, cssInjected, tasks,
                   bridgeVars>>

\* -------------------------------------------------------------------- start
\* the model stops a registry from growing past MaxChain handlers per key
Fits(map) == \A k \in DOMAIN map : Len(map[k]) <= MaxChain

\* the settled hook: a descriptor without the hook awaits undefined
HookOutcomes(has) == IF has THEN {"ok", "throw"} ELSE {"ok"}

\* (mutant) the name is added whether or not the hook resolved
StartSettlesAnyway(active, name, outcome) == active \cup {name}

\* (mutant) a catch block that takes the plugin's handlers out again
StartRollsBack(map, name, outcome) ==
    IF outcome = "throw" THEN RemoveHandlers(map, name) ELSE map

\* the registry once the hook has settled: neither the rest of the try block
\* nor the catch block touches it
StartLeaves(map, name, outcome) == map

\* after the await: the hook resolved (add to the active set) or the catch ran
StartSettles(active, name, outcome) ==
    IF outcome = "ok" THEN active \cup {name} ELSE active

\* (mutant) start without its catch: the hook's error reaches the caller
StartPropagates(outcome) == outcome = "throw"

\* whether start's caller sees the error
StartRaises(outcome) == FALSE

\* start(name) up to its await, on the loader and the bridge
StartSync(name) ==
    /\ UNCHANGED <<plugins, activePlugins, bridgeVars>>
    /\ lastCall' = NoCallYet
    /\ IF StartIsNoop(name)
       THEN /\ lastDone' = Done("start", name, "noop", FALSE, NoneInFlight,
                                activePlugins, eventHandlers)
            /\ UNCHANGED <<eventHandlers, cssInjected, tasks>>
       ELSE /\ InFlight # TaskIds
            /\ Fits(StartInstalls(eventHandlers, name))
            /\ eventHandlers' = StartInstalls(eventHandlers, name)
            /\ cssInjected' = StartCss(cssInjected, name)
            /\ tasks' = Suspend([Idle EXCEPT !.op = "start", !.name = name,
                                             !.pc = "hook"])
            /\ lastDone' = Keep("start", name)

StartCall(name) == StartSync(name) /\ UNCHANGED restVars

\* start behind its await
StartAsync(i, outcome) ==
    /\ tasks[i].op = "start"
    /\ outcome \in HookOutcomes(Get(tasks[i].name).start)
    /\ activePlugins' = StartSettles(activePlugins, tasks[i].name, outcome)
    /\ tasks' = [tasks EXCEPT ![i] = Idle]
    /\ eventHandlers' = StartLeaves(eventHandlers, tasks[i].name, outcome)
    /\ lastDone' = Done("start", tasks[i].name, outcome, StartRaises(outcome),
                        tasks[i].solo, activePlugins', eventHandlers')
    /\ lastCall' = NoCallYet
    /\ UNCHANGED <<plugins, cssInjected, bridgeVars>>

StartResume(i, outcome) == StartAsync(i, outcome) /\ UNCHANGED restVars

\* --------------------------------------------------------------------- stop
\* (mutant) the handlers are retracted whether or not the hook resolved
StopHandlersAnyway(map, name, outcome) == RemoveHandlers(map, name)

\* after the await: the steps behind the hook run only if it resolved
StopHandlers(map, name, outcome) ==
    IF outcome = "ok" THEN RemoveHandlers(map, name) ELSE map

StopCss(css, name, outcome) ==
    IF outcome = "ok" /\ Get(name).css THEN RemoveCss(css, name) ELSE css

\* (mutant) stop leaves the name in the active set
StopSettlesNever(active, name, outcome) == active

StopSettles(active, name, outcome) ==
    IF outcome = "ok" THEN active \ {name} ELSE active

\* whether stop's caller sees the error
StopRaises(outcome) == FALSE

\* stop(name) up to its await, on the loader and the bridge
StopSync(name) ==
    /\ UNCHANGED <<plugins, activePlugins, eventHandlers, cssInjected,
                   bridgeVars>>
    /\ lastCall' = NoCallYet
    /\ IF StopIsNoop(name)
       THEN /\ lastDone' = Done("stop", name, "noop", FALSE, NoneInFlight,
                                activePlugins, eventHandlers)
            /\ UNCHANGED tasks
       ELSE /\ InFlight # TaskIds
            /\ tasks' = Suspend([Idle EXCEPT !.op = "stop", !.name = name,
                                             !.pc = "hook"])
            /\ lastDone' = Keep("stop", name)

StopCall(name) == StopSync(name) /\ UNCHANGED restVars

\* stop behind its await
StopAsync(i, outcome) ==
    /\ tasks[i].op = "stop"
    /\ outcome \in HookOutcomes(Get(tasks[i].name).stop)
    /\ cssInjected' = StopCss(cssInjected, tasks[i].name, outcome)
    /\ eventHandlers' = StopHandlers(eventHandlers, tasks[i].name, outcome)
    /\ activePlugins' = StopSettles(activePlugins, tasks[i].name, outcome)
    /\ tasks' = [tasks EXCEPT ![i] = Idle]
    /\ lastDone' = Done("stop", tasks[i].name, outcome, StopRaises(outcome),
                        tasks[i].solo, activePlugins', eventHandlers')
    /\ lastCall' = NoCallYet
    /\ UNCHANGED <<plugins, bridgeVars>>

StopResume(i, outcome) == StopAsync(i, outcome) /\ UNCHANGED restVars

\* ----------------------------------------------------------------- startAll
\* pluginSettings?.enabled ?? false
DefaultEnabled == FALSE

\* (mutant) startAll without the settings test
AlwaysEnabled(name) == TRUE

Enabled(name) ==
    IF settings[name] = "none" THEN DefaultEnabled ELSE settings[name] = "on"

\* (mutant) the loop takes the enabled plugins from the back
LastEnabled(j) ==
    LET S == {k \in j..Len(plugins) : Enabled(plugins[k].name)}
    IN IF S = {} THEN 0 ELSE CHOOSE k \in S : \A m \in S : k >= m

\* (mutant) a loop that does not advance: behind the first plugin it takes
\* the plugin it has just started again
SamePluginAgain(j) ==
    IF j > 1 THEN j - 1
    ELSE LET S == {k \in j..Len(plugins) : Enabled(plugins[k].name)}
         IN IF S = {} THEN 0 ELSE CHOOSE k \in S : \A m \in S : k <= m

\* the next plugin at or after position j that the loop starts; 0 when none
NextEnabled(j) ==
    LET S == {k \in j..Len(plugins) : Enabled(plugins[k].name)}
    IN IF S = {} THEN 0 ELSE CHOOSE k \in S : \A m \in S : k <= m

\* startAll is called: the loop runs to its first `await this.start(name)`
StartAllCall ==
    LET k == NextEnabled(1)
    IN /\ UNCHANGED <<plugins, restVars, activePlugins, bridgeVars>>
       /\ lastCall' = NoCallYet
       /\ IF k = 0
          THEN /\ lastDone' = [Done("startAll", "", "ok", FALSE, NoneInFlight,
                                    activePlugins, eventHandlers)
                                EXCEPT !.before = activePlugins,
                                       !.fresh = (eventHandlers = <<>>)]
               /\ UNCHANGED <<eventHandlers, cssInjected, tasks>>
          ELSE /\ InFlight # TaskIds
               /\ lastDone' = NoCall
               /\ IF StartIsNoop(plugins[k].name)
                  THEN /\ tasks' = Suspend([Idle EXCEPT !.op = "startAll",
                                                        !.idx = k, !.pc = "start",
                                                        !.before = activePlugins,
                                                        !.fresh = (eventHandlers = <<>>)])
                       /\ UNCHANGED <<eventHandlers, cssInjected>>
                  ELSE /\ Fits(StartInstalls(eventHandlers, plugins[k].name))
                       /\ eventHandlers' = StartInstalls(eventHandlers, plugins[k].name)
                       /\ cssInjected' = StartCss(cssInjected, plugins[k].name)
                       /\ tasks' = Suspend([Idle EXCEPT !.op = "startAll",
                                                        !.idx = k, !.pc = "hook",
                                                        !.before = activePlugins,
                                                        !.fresh = (eventHandlers = <<>>)])

\* the hook of the start that startAll awaits settles; an error that start
\* let through would end the loop and reach startAll's caller
StartAllHook(i, outcome) ==
    LET name == plugins[tasks[i].idx].name
        failed == IF outcome = "throw" THEN tasks[i].failed \cup {name}
                  ELSE tasks[i].failed
    IN /\ tasks[i].op = "startAll"
       /\ tasks[i].pc = "hook"
       /\ outcome \in HookOutcomes(Get(name).start)
       /\ activePlugins' = StartSettles(activePlugins, name, outcome)
       /\ eventHandlers' = StartLeaves(eventHandlers, name, outcome)
       /\ IF StartRaises(outcome)
          THEN /\ tasks' = [tasks EXCEPT ![i] = Idle]
               /\ lastDone' = [Done("startAll", "", outcome, TRUE, tasks[i].solo,
                                    activePlugins', eventHandlers')
                                EXCEPT !.before = tasks[i].before,
                                       !.failed = failed]
          ELSE /\ tasks' = [tasks EXCEPT ![i].pc = "start", ![i].failed = failed]
               /\ lastDone' = Done("start", name, outcome, FALSE,
                                   tasks[i].solo, activePlugins', eventHandlers')
       /\ lastCall' = NoCallYet
       /\ UNCHANGED <<plugins, restVars, cssInjected, bridgeVars>>

\* the awaited start has completed: the loop goes on to the next plugin
StartAllNext(i) ==
    LET k == NextEnabled(tasks[i].idx + 1)
    IN /\ tasks[i].op = "startAll"
       /\ tasks[i].pc = "start"
       /\ UNCHANGED <<plugins, restVars, activePlugins, bridgeVars>>
       /\ lastCall' = NoCallYet
       /\ IF k = 0
          THEN /\ tasks' = [tasks EXCEPT ![i] = Idle]
               /\ lastDone' = [Done("startAll", "", "ok", FALSE, tasks[i].solo,
                                    activePlugins, eventHandlers)
                                EXCEPT !.before = tasks[i].before,
                                       !.fresh = tasks[i].fresh,
                                       !.failed = tasks[i].failed]
               /\ UNCHANGED <<eventHandlers, cssInjected>>
          ELSE /\ lastDone' = NoCall
               /\ IF StartIsNoop(plugins[k].name)
                  THEN /\ tasks' = [tasks EXCEPT ![i].idx = k, ![i].pc = "start"]
                       /\ UNCHANGED <<eventHandlers, cssInjected>>
                  ELSE /\ Fits(StartInstalls(eventHandlers, plugins[k].name))
                       /\ eventHandlers' = StartInstalls(eventHandlers, plugins[k].name)
                       /\ cssInjected' = StartCss(cssInjected, plugins[k].name)
                       /\ tasks' = [tasks EXCEPT ![i].idx = k, ![i].pc = "hook"]

\* ------------------------------------------------------ wrapped bridge call
SlotNames == Bridges

\* the start / stop calls made during a bridge call, each suspended at its
\* await when the bridge call returns
RECURSIVE SuspendEach(_, _)
SuspendEach(ts, calls) ==
    IF calls = <<>> THEN ts
    ELSE LET idle == {i \in TaskIds : ts[i].op = "idle"}
             free == CHOOSE i \in idle : \A j \in idle : i <= j
             rec == [Idle EXCEPT !.op = Head(calls).op, !.name = Head(calls).name,
                                 !.pc = "hook"]
         IN SuspendEach([i \in TaskIds |->
                            IF i = free THEN rec
                            ELSE [ts[i] EXCEPT !.solo = FALSE]],
                        Tail(calls))

\* the host reads a slot and calls a method of what it finds there; the call
\* runs to its end before anything else does
HostCall(s, method, args) ==
    /\ IsObject(slots[s].value)
    /\ \E r \in {CallMember(World(eventHandlers, cssInjected, pluginLoader),
                             slots[s].value, method, args)} :
          /\ Fits(r.w.map)
          /\ Cardinality(InFlight) + Len(r.w.calls) <= MaxTasks
          /\ lastCall' = [slot |-> s, method |-> method, args |-> args,
                          chain |-> IF Key(EventName(s), method)
                                       \in DOMAIN eventHandlers
                                    THEN eventHandlers[Key(EventName(s), method)]
                                    ELSE <<>>,
                          ret |-> r.ret, trace |-> r.trace]
          /\ eventHandlers' = r.w.map
          /\ cssInjected' = r.w.css
          /\ tasks' = SuspendEach(tasks, r.w.calls)
    /\ UNCHANGED <<plugins, activePlugins, restVars, lastDone, bridgeVars>>

\* ------------------------------------------------------- installBridgeProxy
HostObjects == {"o1", "o2"}

Absent == [kind |-> "absent", value |-> NoValue]
Data(v) == [kind |-> "data", value |-> v]
Accessor(v) == [kind |-> "accessor", value |-> v]

\* window[s]: a data property's value, the getter's closure variable, or
\* undefined
Read(s) == slots[s].value

\* (mutant) the getter / setter pair is defined whatever the slot holds
SlotAlwaysObserved(slot, s) ==
    IF IsObject(slot.value)
    THEN Accessor(CreateBridgeProxy(slot.value, EventName(s)))
    ELSE Accessor(NoValue)

\* tryProxy, then the descriptor test: a slot holding an object gets the proxy
\* as an ordinary value; any other slot gets the getter / setter pair
SlotAfterInstall(slot, s) ==
    IF IsObject(slot.value)
    THEN Data(CreateBridgeProxy(slot.value, EventName(s)))
    ELSE Accessor(NoValue)

\* (mutant) a single-shot setter: once a value is wrapped, later writes are
\* stored as they are
SetterStoresOnce(slot, v, s) ==
    IF ~IsObject(v) THEN slot.value
    ELSE IF IsObject(slot.value) THEN v
    ELSE CreateBridgeProxy(v, EventName(s))

\* the setter: _ntw = createBridgeProxy(val, prefix); new Proxy throws a
\* TypeError for a value that is no object and the variable keeps its value
SetterStores(slot, v, s) ==
    IF IsObject(v) THEN CreateBridgeProxy(v, EventName(s)) ELSE slot.value

\* window[s] = v
Assign(slot, v, s) ==
    IF slot.kind = "accessor" THEN Accessor(SetterStores(slot, v, s))
    ELSE Data(v)

NoWrites == [n |-> 0, last |-> NoValue, deferred |-> FALSE]

InstallBridgeProxy ==
    /\ ~installed
    /\ installed' = TRUE
    /\ slots' = [s \in SlotNames |-> SlotAfterInstall(slots[s], s)]
    /\ hostWrites' = [s \in SlotNames |->
                         [NoWrites EXCEPT !.deferred = ~IsObject(slots[s].value)]]
    /\ lastCall' = NoCallYet
    /\ UNCHANGED <<loaderVars, pluginLoader>>

SetPluginLoader ==
    /\ pluginLoader = "null"
    /\ pluginLoader' = "loader"
    /\ lastCall' = NoCallYet
    /\ UNCHANGED <<loaderVars, installed, slots, hostWrites>>

\* what the host may assign: a bridge object of its own, the value it reads
\* back from the slot, or undefined
HostValues(s) == {Raw(o) : o \in HostObjects} \cup {Read(s), NoValue}

HostAssign(s, v) ==
    /\ Len(Assign(slots[s], v, s).value.layers) <= MaxDepth
    /\ hostWrites[s].n < MaxWrites
    /\ slots' = [slots EXCEPT ![s] = Assign(slots[s], v, s)]
    /\ hostWrites' =
          IF installed
          THEN [hostWrites EXCEPT ![s].n = IF IsObject(v) THEN @ + 1 ELSE @,
                                  ![s].last = v]
          ELSE hostWrites
    /\ lastCall' = NoCallYet
    /\ UNCHANGED <<loaderVars, pluginLoader, installed>>

\* ------------------------------------------------------ the rest of the page
\* the plugins page before buildPluginsPage has run
NoPage == [built |-> FALSE, rows |-> <<>>]

\* the page's network functions as the host defines them, nothing saved
Interceptors == {"sentry-blocker", "silent-typing"}
\* navigator.sendBeacon as a value: whose function it is, under how many binds
Beacon(fn, binds) == [fn |-> fn, binds |-> binds]
NoneSaved == [fetch |-> "null", open |-> "null", beacon |-> Beacon("null", 0)]
NoRequest == [via |-> "", url |-> "", outcome |-> ""]
\* ran: the plugins whose start hook has run (observation)
HostNet ==
    [fetch |-> "host", open |-> "host", beacon |-> Beacon("host", 0),
     saved |-> [p \in Interceptors |-> NoneSaved], ran |-> {},
     last |-> NoRequest]

\* the target files: WebRtcBundle/index.html and one RootApps/*/index.html
Files == {"WebRtcBundle", "RootApps"}

\* the pages the host ships, as lines of tokens: </head> on a line of its own,
\* </head> inside a line, and a page without </head>
HostPages ==
    { << <<"<head>">>, <<"  ", "</head>">>, <<"<body>">> >>,
      << <<"<head>", "</head>", "<body>">> >>,
      << <<"<body>">> >> }
FirstPage == << <<"<head>">>, <<"  ", "</head>">>, <<"<body>">> >>

\* no file at the backup path
NoFile == << <<"ENOENT">> >>

\* pre: the content before the install that injected last and has not been
\* uninstalled; was / last: the files before the last operation, and the
\* operation (observation)
File(content, backup, pre) ==
    [content |-> content, backup |-> backup, pre |-> pre]
FreshDisk ==
    [files |-> [f \in Files |-> File(FirstPage, NoFile, NoFile)],
     was |-> [f \in Files |-> File(FirstPage, NoFile, NoFile)],
     last |-> ""]

HostUntouched == net = HostNet /\ disk = FreshDisk

\* where the specification at hand leaves the panel and the network aside
RestUnused == page = NoPage /\ HostUntouched

\* ----------------------------------------------- settings panel: plugins page
\* settings?.plugins?.[name]?.enabled ?? true
IsEnabled(name) ==
    IF settings[name] = "none" THEN TRUE ELSE settings[name] = "on"

BadgeText(on) == IF on THEN "Active" ELSE "Inactive"

\* buildPluginsPage: one row per registered plugin, the toggle set from the
\* settings and the badge from the loader's active set
BuildPluginsPage ==
    /\ ~page.built
    /\ page' = [built |-> TRUE,
                rows |-> [n \in {plugins[i].name : i \in 1..Len(plugins)} |->
                            [checked |-> IsEnabled(n),
                             badge |-> BadgeText(n \in activePlugins),
                             pending |-> "none"]]]
    /\ lastCall' = NoCallYet
    /\ UNCHANGED <<plugins, activePlugins, eventHandlers, panelRest, cssInjected,
                   tasks, lastDone, bridgeVars>>

\* the toggle's change listener behind its await: the badge is set from the
\* toggle's value
BadgeAfterToggle(row, enabled) ==
    [row EXCEPT !.badge = BadgeText(enabled), !.pending = "none"]

\* the row's toggle is clicked: onChange(input.checked) calls loader.start or
\* loader.stop and awaits it
ToggleChange(n) ==
    LET enabled == ~page.rows[n].checked
        returnsAtOnce == IF enabled THEN StartIsNoop(n) ELSE StopIsNoop(n)
        clicked == [page.rows[n] EXCEPT !.checked = enabled]
    IN /\ page.built
       /\ n \in DOMAIN page.rows
       /\ IF enabled THEN StartSync(n) ELSE StopSync(n)
       /\ page' = [page EXCEPT !.rows[n] =
                      IF returnsAtOnce THEN BadgeAfterToggle(clicked, enabled)
                      ELSE [clicked EXCEPT !.pending =
                                              IF enabled THEN "on" ELSE "off"]]
       /\ UNCHANGED panelRest

\* the awaited start or stop completes and the listener goes on
ToggleResume(i, outcome) ==
    /\ tasks[i].op \in {"start", "stop"}
    /\ page.built
    /\ tasks[i].name \in DOMAIN page.rows
    /\ page.rows[tasks[i].name].pending # "none"
    /\ IF tasks[i].op = "start" THEN StartAsync(i, outcome)
       ELSE StopAsync(i, outcome)
    /\ page' = [page EXCEPT !.rows[tasks[i].name] =
                   BadgeAfterToggle(@, @.pending = "on")]
    /\ UNCHANGED panelRest

\* ------------------------------------------------------------ specifications
\* Spec: the page after the preload ran with both bridges already set by the
\* host (installBridgeProxy wrapped each, the loader was constructed and
\* wired); plugins are then registered, started and stopped, each call
\* awaited before the next is made, and the host calls bridge methods.
Wrapped(s) == Data(CreateBridgeProxy(Raw("o1"), EventName(s)))

Init ==
    /\ plugins = <<>>
    /\ activePlugins = {}
    /\ eventHandlers = <<>>
    /\ settings = InitialSettings
    /\ cssInjected = {}
    /\ tasks = [i \in TaskIds |-> Idle]
    /\ lastDone = NoCall
    /\ pluginLoader = "loader"
    /\ installed = TRUE
    /\ slots = [s \in SlotNames |-> Wrapped(s)]
    /\ hostWrites = [s \in SlotNames |-> NoWrites]
    /\ lastCall = NoCallYet
    /\ RestUnused

Next ==
    \/ \E d \in Catalogue : NoneInFlight /\ Register(d)
    \/ \E name \in CallNames : NoneInFlight /\ StartCall(name)
    \/ \E i \in TaskIds, outcome \in {"ok", "throw"} : StartResume(i, outcome)
    \/ \E name \in CallNames : NoneInFlight /\ StopCall(name)
    \/ \E i \in TaskIds, outcome \in {"ok", "throw"} : StopResume(i, outcome)
    \/ NoneInFlight /\ StartAllCall
    \/ \E i \in TaskIds, outcome \in {"ok", "throw"} : StartAllHook(i, outcome)
    \/ \E i \in TaskIds : StartAllNext(i)
    \/ \E s \in SlotNames, method \in Methods, args \in CallArgs :
          HostCall(s, method, args)

Spec == Init /\ [][Next]_vars

\* SpecBridge: a fresh page. The host sets each bridge slot before or after
\* the preload runs installBridgeProxy and wires the loader, reads and
\* reassigns the slots, and calls bridge methods through what it reads.
InitBridge ==
    /\ plugins = <<>>
    /\ activePlugins = {}
    /\ eventHandlers = <<>>
    /\ settings = InitialSettings
    /\ cssInjected = {}
    /\ tasks = [i \in TaskIds |-> Idle]
    /\ lastDone = NoCall
    /\ pluginLoader = "null"
    /\ installed = FALSE
    /\ slots = [s \in SlotNames |-> Absent]
    /\ hostWrites = [s \in SlotNames |-> NoWrites]
    /\ lastCall = NoCallYet
    /\ RestUnused

NextBridge ==
    \/ InstallBridgeProxy
    \/ SetPluginLoader
    \/ \E s \in SlotNames : \E v \in HostValues(s) : HostAssign(s, v)
    \/ \E s \in SlotNames, method \in Methods, args \in CallArgs :
          HostCall(s, method, args)

SpecBridge == InitBridge /\ [][NextBridge]_vars

\* SpecStartAll: the loader constructed with any settings snapshot (each
\* plugin enabled, disabled or without an entry); plugins are registered and
\* started one by one or by startAll, each call awaited before the next.
SettingsSnapshots == [Names -> {"on", "off", "none"}]

InitStartAll ==
    /\ plugins = <<>>
    /\ activePlugins = {}
    /\ eventHandlers = <<>>
    /\ settings \in SettingsSnapshots
    /\ cssInjected = {}
    /\ tasks = [i \in TaskIds |-> Idle]
    /\ lastDone = NoCall
    /\ pluginLoader = "loader"
    /\ installed = TRUE
    /\ slots = [s \in SlotNames |-> Wrapped(s)]
    /\ hostWrites = [s \in SlotNames |-> NoWrites]
    /\ lastCall = NoCallYet
    /\ RestUnused

NextStartAll ==
    \/ \E d \in Catalogue : NoneInFlight /\ Register(d)
    \/ \E name \in Names : NoneInFlight /\ StartCall(name)
    \/ \E i \in TaskIds, outcome \in {"ok", "throw"} : StartResume(i, outcome)
    \/ NoneInFlight /\ StartAllCall
    \/ \E i \in TaskIds, outcome \in {"ok", "throw"} : StartAllHook(i, outcome)
    \/ \E i \in TaskIds : StartAllNext(i)

SpecStartAll == InitStartAll /\ [][NextStartAll]_vars

\* SpecStartAllFair: SpecStartAll in which every start hook that startAll
\* awaits settles and the loop's continuation is run once it can be.
SpecStartAllFair ==
    /\ SpecStartAll
    /\ WF_vars(\E i \in TaskIds, outcome \in {"ok", "throw"} :
                  StartAllHook(i, outcome))
    /\ WF_vars(\E i \in TaskIds : StartAllNext(i))

\* SpecRegister: as Spec without bridge calls, with two descriptors that
\* carry the same name offered to register.
NextRegister ==
    \/ \E d \in Descriptors : NoneInFlight /\ Register(d)
    \/ \E name \in Names : NoneInFlight /\ StartCall(name)
    \/ \E i \in TaskIds, outcome \in {"ok", "throw"} : StartResume(i, outcome)
    \/ \E name \in Names : NoneInFlight /\ StopCall(name)
    \/ \E i \in TaskIds, outcome \in {"ok", "throw"} : StopResume(i, outcome)

SpecRegister == Init /\ [][NextRegister]_vars

\* SpecOverlap: start and stop are called without awaiting the calls already
\* in flight (up to MaxTasks suspended at their hooks); every hook resolves.
NextOverlap ==
    \/ \E d \in Catalogue : Register(d)
    \/ \E name \in Names : StartCall(name)
    \/ \E i \in TaskIds : StartResume(i, "ok")
    \/ \E name \in Names : StopCall(name)
    \/ \E i \in TaskIds : StopResume(i, "ok")

SpecOverlap == Init /\ [][NextOverlap]_vars

\* ==================================================================== claims

OwnedBy(name) ==
    {k \in DOMAIN eventHandlers :
        \E j \in 1..Len(eventHandlers[k]) : eventHandlers[k][j].plugin = name}

PatchInstalled(name, patch) ==
    LET key == Key(EventName(patch.bridge), patch.method)
    IN /\ key \in DOMAIN eventHandlers
       /\ \E j \in 1..Len(eventHandlers[key]) :
             eventHandlers[key][j] = MakeHandler(name, patch)

\* C1: whenever no start or stop is in flight, a registered plugin has a
\* handler in the registry only if it is active, and every active plugin has
\* all its patches in the registry.
C1_HandlersIffActive ==
    NoneInFlight =>
        \A i \in 1..Len(plugins) :
            LET d == plugins[i]
            IN /\ OwnedBy(d.name) # {} => d.name \in activePlugins
               /\ d.name \in activePlugins =>
                     \A j \in 1..Len(d.patches) : PatchInstalled(d.name, d.patches[j])

\* C2: when start(p) (or stop(p)) completes right after an awaited start(p)
\* (stop(p)) completed, with the plugin's hook behaving alike in both calls,
\* the active set and the number of handlers are what the first call left.
C2_SameHook(first, second) == {first, second} # {"ok", "throw"}

C2_IdempotentStartStop ==
    [][(/\ lastDone.op \in {"start", "stop"}
        /\ lastDone'.op = lastDone.op
        /\ lastDone'.name = lastDone.name
        /\ lastDone.solo /\ lastDone'.solo
        /\ C2_SameHook(lastDone.outcome, lastDone'.outcome))
       => (/\ lastDone'.active = lastDone.active
           /\ lastDone'.count = lastDone.count)]_vars

\* C8: a stop of an active plugin whose stop hook throws or rejects leaves the
\* plugin out of the active set and raises nothing to its caller.
C8_StopRemovesDespiteThrow ==
    (lastDone.op = "stop" /\ lastDone.outcome = "throw") =>
        /\ lastDone.name \notin lastDone.active
        /\ ~lastDone.raised

\* ------------------------------------------------- claims about wrapped calls
CallMade == lastCall.slot # ""
Log == lastCall.trace
LogIdx == 1..Len(Log)
Originals == {i \in LogIdx : Log[i].ev = "original"}
Invocations == {i \in LogIdx : Log[i].ev = "handler"}

\* C3: once a stop(p) of an active plugin has completed, a wrapped call
\* invokes no handler owned by p, and the stop leaves the handlers of the
\* other plugins under every key as they were, in the same order.
C3_Others(handlers, name) == SelectSeq(handlers, LAMBDA h : h.plugin # name)

C3_IsolationOnStop ==
    [][/\ \A i \in TaskIds :
            (tasks[i].op = "stop" /\ tasks'[i].op = "idle") =>
                \A k \in DOMAIN eventHandlers :
                    LET others == C3_Others(eventHandlers[k], tasks[i].name)
                    IN others # <<>> =>
                          /\ k \in DOMAIN eventHandlers'
                          /\ C3_Others(eventHandlers'[k], tasks[i].name) = others
       /\ (lastCall'.slot # "" /\ lastDone'.op = "stop"
             /\ lastDone'.outcome # "noop") =>
             \A j \in 1..Len(lastCall'.trace) :
                 lastCall'.trace[j].ev = "handler" =>
                     lastCall'.trace[j].who # lastDone'.name]_vars

\* C4: one emit invokes the handlers of the key's list in list order from the
\* first on, and invokes none after a handler that left the event cancelled.
C4_ShortCircuit ==
    CallMade =>
        LET n == Cardinality(Invocations)
        IN /\ n <= Len(lastCall.chain)
           /\ \A i \in Invocations :
                 /\ Log[i].pos \in 1..n
                 /\ Log[i].who = lastCall.chain[Log[i].pos].plugin
                 /\ Log[i].patch = lastCall.chain[Log[i].pos].patch
                 /\ \A j \in Invocations : j < i <=> Log[j].pos < Log[i].pos
                 /\ Log[i].res = Cancelled => Log[i].pos = n
           /\ n < Len(lastCall.chain) =>
                 \E i \in Invocations : Log[i].pos = n /\ Log[i].res = Cancelled

\* a chain of three handlers whose first cancels: only it was invoked
C4_Witness ==
    /\ CallMade
    /\ Len(lastCall.chain) = 3
    /\ Cardinality(Invocations) = 1
    /\ \E i \in Invocations : Log[i].res = Cancelled

\* C5: when the handler of a patch with replace and no before runs, the event
\* is cancelled, the original method is not invoked, the call returns what
\* replace returned, and the patch's after runs with that value as result.
C5_ReplaceSemantics ==
    \A i \in LogIdx :
        (Log[i].ev = "replace" /\ Log[i].patch.before = "none") =>
            /\ \E h \in Invocations :
                  Log[h].pos = Log[i].pos /\ Log[h].res = Cancelled
            /\ Originals = {}
            /\ lastCall.ret = Log[i].res
            /\ Log[i].patch.after =>
                  \E j \in LogIdx :
                      /\ j > i
                      /\ Log[j].ev = "after"
                      /\ Log[j].pos = Log[i].pos
                      /\ Log[j].who = Log[i].who
                      /\ Log[j].res = Log[i].res

\* a call answered by a replace that was reached behind another handler
C5_Witness ==
    \E i \in LogIdx :
        /\ Log[i].ev = "replace"
        /\ Log[i].pos = 2
        /\ lastCall.ret = JsFortyTwo

\* C6: when the before of a patch without replace returns exactly false, the
\* original method is not invoked, the call returns undefined and the patch's
\* after is not invoked; when it returns anything else and no other handler
\* of the chain cancels, the original is invoked once and its result returned.
C6_VetoSemantics ==
    \A i \in LogIdx :
        (Log[i].ev = "before" /\ Log[i].patch.replace = "none") =>
            /\ Log[i].res = JsFalse =>
                  /\ Originals = {}
                  /\ lastCall.ret = Undefined
                  /\ ~\E j \in LogIdx :
                        Log[j].ev = "after" /\ Log[j].pos = Log[i].pos
            /\ (/\ Log[i].res # JsFalse
                /\ \A h \in Invocations :
                      Log[h].pos # Log[i].pos => Log[h].res # Cancelled) =>
                  /\ Cardinality(Originals) = 1
                  /\ \A o \in Originals :
                        /\ lastCall.ret = Log[o].res
                        /\ Log[o].res = OrigResult(Log[o].who, lastCall.method,
                                                   Log[o].args)

\* a before returning 0 lets the call on to a before that returns false,
\* which vetoes it
C6_Witness ==
    /\ \E i \in LogIdx : Log[i].ev = "before" /\ Log[i].res = JsZero
    /\ \E i \in LogIdx : Log[i].ev = "before" /\ Log[i].res = JsFalse
    /\ Originals = {}
    /\ lastCall.ret = Undefined

\* C7: in a call that is neither vetoed nor replaced, a patch's after runs
\* after the original method and receives the original's return value.
C7_AfterSeesOriginalResult ==
    \A i \in LogIdx :
        (Log[i].ev = "after" /\ Originals # {}) =>
            \E o \in Originals : o < i /\ Log[i].res = Log[o].res

\* ------------------------------------------------- claims about late binding
Emits == {i \in LogIdx : Log[i].ev = "emit"}
Deferred(s) == installed /\ hostWrites[s].deferred

\* C9: for a slot unset at install, once the host has assigned an object every
\* read yields a wrapper, and a call through it causes exactly one emit, then
\* at most one invocation of the underlying method.
C9_WrapsExactlyOnce ==
    /\ \A s \in SlotNames :
          (Deferred(s) /\ IsObject(Read(s))) => Read(s).layers # <<>>
    /\ (CallMade /\ Deferred(lastCall.slot) /\ pluginLoader # "null") =>
          /\ Cardinality(Emits) = 1
          /\ Cardinality(Originals) <= 1
          /\ \A e \in Emits, o \in Originals : e < o

C11_NoEmptyLists ==
    \A k \in DOMAIN eventHandlers : eventHandlers[k] # <<>>

\* stop(C) completed and took C's key on the other bridge out of the registry
\* while a key that another plugin shares stays
C11_Witness ==
    /\ lastDone.op = "stop"
    /\ lastDone.name = "C"
    /\ lastDone.outcome = "ok"
    /\ "bridge:nativeToWebRtc:kick" \notin DOMAIN eventHandlers
    /\ "bridge:webRtcToNative:setMute" \in DOMAIN eventHandlers

\* -------------------------------------------------- claims about startAll
Registered == {plugins[i].name : i \in 1..Len(plugins)}
SetOn == {n \in Registered : settings[n] = "on"}

\* C12: a startAll called on an empty active set in which every start hook
\* succeeded leaves active exactly the registered plugins whose settings entry
\* says enabled; no plugin whose entry says disabled is active.
C12_StartAllRespectsSettings ==
    (lastDone.op = "startAll" /\ lastDone.before = {} /\ lastDone.failed = {}) =>
        /\ lastDone.active = SetOn
        /\ activePlugins = SetOn
        /\ \A n \in Registered : settings[n] = "off" => n \notin activePlugins

\* three registered plugins, two of them enabled and one disabled: startAll
\* left exactly the two active
C12_Witness ==
    /\ lastDone.op = "startAll"
    /\ lastDone.before = {}
    /\ lastDone.failed = {}
    /\ Len(plugins) = 3
    /\ Cardinality(SetOn) = 2
    /\ \E n \in Registered : settings[n] = "off"
    /\ activePlugins = SetOn

\* C13: a startAll in which every start hook succeeded has started every
\* registered plugin that has no settings entry.
C13_DefaultEnabled ==
    (lastDone.op = "startAll" /\ lastDone.failed = {}) =>
        \A n \in Registered : settings[n] = "none" => n \in lastDone.active

\* ------------------------------------------------ claims about chain order
\* the keys whose list a step made longer: the keys a start installed under
C14_Grown ==
    {k \in DOMAIN eventHandlers' :
        Len(eventHandlers'[k]) >
            (IF k \in DOMAIN eventHandlers THEN Len(eventHandlers[k]) ELSE 0)}

\* C14: every chain is ordered by the most recent start of the handlers'
\* plugins. When a start installs a plugin's patches that plugin is the most
\* recently started one, so under every key it patches all handlers it owns
\* come behind the handlers of every other plugin.
C14_ChainInStartOrder ==
    [][\A k \in C14_Grown :
          LET chain == eventHandlers'[k]
              started == chain[Len(chain)].plugin
          IN \A i, j \in 1..Len(chain) :
                (i < j /\ chain[i].plugin = started) => chain[j].plugin = started]_vars

\* C15: a startAll in which a start hook threw still completes without raising
\* to its caller, and every enabled registered plugin whose own hook did not
\* throw is active when it completes.
C15_StartAllIsolatesFailures ==
    (lastDone.op = "startAll" /\ lastDone.failed # {}) =>
        /\ ~lastDone.raised
        /\ \A n \in SetOn : n \notin lastDone.failed => n \in lastDone.active

\* the second of three enabled plugins failed; the first and the third are
\* active
C15_Witness ==
    /\ lastDone.op = "startAll"
    /\ Len(plugins) = 3
    /\ SetOn = Registered
    /\ lastDone.failed = {plugins[2].name}
    /\ lastDone.before = {}
    /\ activePlugins = {plugins[1].name, plugins[3].name}

\* ------------------------------------------------ claims about the trampoline
\* the event as emit left it
Emitted == {i \in LogIdx : Log[i].ev \in {"cancelled", "passed"}}

\* C16: a call through a wrapped bridge emits one event built from the call's
\* method and arguments; if the event comes back cancelled the call returns
\* event.returnValue and the original is not invoked, otherwise the original
\* is invoked once on the raw target with the event's current args and its
\* result is returned.
C16_TrampolineContract ==
    CallMade =>
        /\ Cardinality(Emits) = 1
        /\ Cardinality(Emitted) = 1
        /\ Log[1].ev = "emit"
        /\ Log[1].who = "bridge:" \o lastCall.slot
        /\ Log[1].args = lastCall.args
        /\ \A h \in Invocations : Log[h].pos = 1 => Log[h].args = lastCall.args
        /\ \A x \in Emitted :
              /\ Log[x].ev = "cancelled" <=>
                    \E h \in Invocations : Log[h].res = Cancelled
              /\ IF Log[x].ev = "cancelled"
                 THEN /\ Originals = {}
                      /\ lastCall.ret = Log[x].res
                 ELSE /\ Cardinality(Originals) = 1
                      /\ \A o \in Originals :
                            /\ o > x
                            /\ Log[o].who = slots[lastCall.slot].value.obj
                            /\ Log[o].args = Log[x].args
                            /\ lastCall.ret = Log[o].res
                            /\ Log[o].res = OrigResult(Log[o].who, lastCall.method,
                                                       Log[x].args)

\* a before changed the event's args and the original ran with the changed
\* ones
C16_Witness ==
    /\ CallMade
    /\ \E i \in LogIdx : Log[i].ev = "before"
    /\ \E o \in Originals :
          /\ Log[o].args # lastCall.args
          /\ lastCall.ret = Log[o].res

\* -------------------------------------------------- claims about register
\* C17: register raises nothing and leaves the active set, the registry and
\* the injected styles alone; for a name already registered it leaves the
\* stored descriptors as they are, for a new name it appends the descriptor.
C17_RegisterFrame ==
    [][(lastDone'.op = "register" /\ lastCall' = NoCallYet) =>
          /\ ~lastDone'.raised
          /\ activePlugins' = activePlugins
          /\ eventHandlers' = eventHandlers
          /\ cssInjected' = cssInjected
          /\ IF lastDone'.name \in Registered
             THEN plugins' = plugins
             ELSE /\ Len(plugins') = Len(plugins) + 1
                  /\ SubSeq(plugins', 1, Len(plugins)) = plugins
                  /\ plugins'[Len(plugins')].name = lastDone'.name]_vars

\* a register under the name of an active plugin with installed handlers was
\* refused while the first descriptor is kept
C17_Witness ==
    /\ lastDone.op = "register"
    /\ lastDone.outcome = "noop"
    /\ lastDone.name = "A"
    /\ "A" \in activePlugins
    /\ OwnedBy("A") # {}
    /\ Get("A") = PluginA

\* ------------------------------------------- claims about overlapping starts
\* the start calls of plugin `name` suspended at its start hook
StartsPending(name) ==
    {i \in TaskIds : tasks[i].op = "start" /\ tasks[i].name = name}

\* C18: however start calls interleave, no patch of a plugin is installed
\* twice and the plugin's start hook is not invoked twice for one activation.
C18_NeverDoubleStarted ==
    /\ \A k \in DOMAIN eventHandlers :
          \A i, j \in 1..Len(eventHandlers[k]) :
              i < j => eventHandlers[k][i] # eventHandlers[k][j]
    /\ \A n \in Names : Cardinality(StartsPending(n)) <= 1

\* ---------------------------------------------- claims about a failed start
FailedStart == lastDone.op = "start" /\ lastDone.outcome = "throw"

\* C19: a start whose start hook throws or rejects completes without raising
\* to its caller and leaves the plugin out of the active set, so that another
\* start of it is not a no-op.
C19_FailedStartLeavesInactive ==
    FailedStart =>
        /\ ~lastDone.raised
        /\ lastDone.name \notin lastDone.active
        /\ lastDone.name \notin activePlugins
        /\ ~StartIsNoop(lastDone.name)

\* start(A) failed in its hook and A is not active
C19_Witness ==
    /\ FailedStart
    /\ lastDone.name = "A"
    /\ "A" \notin activePlugins
    /\ NoneInFlight

\* what a failed start leaves: every patch of the plugin in the registry and
\* its style in the page; a wrapped call invokes the plugin's handlers (each
\* one that no earlier handler of the chain cuts off) although it is inactive
C20_Left ==
    FailedStart =>
        /\ \A j \in 1..Len(Get(lastDone.name).patches) :
              PatchInstalled(lastDone.name, Get(lastDone.name).patches[j])
        /\ Get(lastDone.name).css => lastDone.name \in cssInjected
        /\ CallMade =>
              \A j \in 1..Len(lastCall.chain) :
                  (/\ lastCall.chain[j].plugin = lastDone.name
                   /\ \A h \in Invocations :
                         Log[h].pos < j => Log[h].res # Cancelled) =>
                      /\ lastDone.name \notin activePlugins
                      /\ \E h \in Invocations :
                            Log[h].pos = j /\ Log[h].who = lastDone.name

\* C20: a start that fails in its hook is not rolled back (C20_Left), and a
\* stop of a plugin that is not active is a no-op that leaves the registry
\* and the page as they are.
C20_NoRollback ==
    [][/\ C20_Left'
       /\ (/\ lastDone'.op = "stop"
           /\ lastDone'.outcome = "noop"
           /\ lastCall' = NoCallYet) =>
              /\ eventHandlers' = eventHandlers
              /\ cssInjected' = cssInjected
              /\ activePlugins' = activePlugins]_vars

\* after a failed start of A, stop(A) was a no-op: A is inactive, its style
\* is in the page and the wrapped call just made invoked its handler
C20_Witness ==
    /\ lastDone.op = "stop"
    /\ lastDone.outcome = "noop"
    /\ lastDone.name = "A"
    /\ Has("A")
    /\ "A" \notin activePlugins
    /\ "A" \in cssInjected
    /\ CallMade
    /\ \E h \in Invocations : Log[h].who = "A"

\* ----------------------------------------------- claims about a failed stop
FailedStop == lastDone.op = "stop" /\ lastDone.outcome = "throw"

\* C21: after a stop whose stop hook threw or rejected, the plugin's style is
\* still in the page and each of its patches still in the registry, and a
\* wrapped call invokes its handlers (each one that no earlier handler of the
\* chain cuts off).
C21_FailedStopSkipsCleanup ==
    FailedStop =>
        /\ \A j \in 1..Len(Get(lastDone.name).patches) :
              PatchInstalled(lastDone.name, Get(lastDone.name).patches[j])
        /\ Get(lastDone.name).css => lastDone.name \in cssInjected
        /\ CallMade =>
              \A j \in 1..Len(lastCall.chain) :
                  (/\ lastCall.chain[j].plugin = lastDone.name
                   /\ \A h \in Invocations :
                         Log[h].pos < j => Log[h].res # Cancelled) =>
                      \E h \in Invocations :
                          Log[h].pos = j /\ Log[h].who = lastDone.name

\* stop(A) failed in its hook; A's style is in the page and the wrapped call
\* just made ran A's before
C21_Witness ==
    /\ FailedStop
    /\ lastDone.name = "A"
    /\ "A" \in cssInjected
    /\ CallMade
    /\ \E i \in LogIdx : Log[i].ev = "before" /\ Log[i].who = "A"

\* ------------------------------------------- claims about the order of steps
\* plugin p's start hook has been invoked and has not settled
StartPending(p) ==
    \E i \in TaskIds :
        \/ tasks[i].op = "start" /\ tasks[i].name = p
        \/ /\ tasks[i].op = "startAll"
           /\ tasks[i].pc = "hook"
           /\ plugins[tasks[i].idx].name = p

\* plugin p's stop hook has been invoked and has not settled
StopPending(p) == \E i \in TaskIds : tasks[i].op = "stop" /\ tasks[i].name = p

AllInstalled(p) ==
    \A j \in 1..Len(Get(p).patches) : PatchInstalled(p, Get(p).patches[j])

\* in the wrapped call just made, every handler of p that no earlier handler
\* of the chain cut off was invoked
StillInvoked(p) ==
    \A j \in 1..Len(lastCall.chain) :
        (/\ lastCall.chain[j].plugin = p
         /\ \A h \in Invocations : Log[h].pos < j => Log[h].res # Cancelled) =>
            \E h \in Invocations : Log[h].pos = j /\ Log[h].who = p

\* C22: while the start hook of p is pending, every patch of p is installed
\* and its style injected, and p is not in the active set; p is in the active
\* set when its start has completed with the hook resolved, and only then.
C22_StartOrder ==
    /\ \A p \in Names :
          StartPending(p) =>
              /\ AllInstalled(p)
              /\ Get(p).css => p \in cssInjected
              /\ p \notin activePlugins
    /\ (lastDone.op = "start" /\ lastDone.outcome \in {"ok", "throw"}) =>
          (lastDone.name \in lastDone.active <=> lastDone.outcome = "ok")

\* A's start is suspended at its hook: installed, styled, not active, and a
\* wrapped call made meanwhile ran its handler
C22_Witness ==
    /\ StartPending("A")
    /\ AllInstalled("A")
    /\ "A" \in cssInjected
    /\ "A" \notin activePlugins
    /\ CallMade
    /\ \E h \in Invocations : Log[h].who = "A"

\* C23: while the stop hook of p is pending, p is in the active set, its style
\* and patches are in place and emit invokes its handlers; once the stop has
\* completed with the hook resolved, p owns no handler, its style is gone and
\* it is not active.
C23_StopOrder ==
    /\ \A p \in Names :
          StopPending(p) =>
              /\ p \in activePlugins
              /\ AllInstalled(p)
              /\ Get(p).css => p \in cssInjected
              /\ CallMade => StillInvoked(p)
    /\ (lastDone.op = "stop" /\ lastDone.outcome = "ok") =>
          /\ OwnedBy(lastDone.name) = {}
          /\ lastDone.name \notin cssInjected
          /\ lastDone.name \notin activePlugins
          /\ lastDone.name \notin lastDone.active

\* A's stop is suspended at its hook and the wrapped call made meanwhile ran
\* A's handler
C23_Witness ==
    /\ StopPending("A")
    /\ "A" \in activePlugins
    /\ CallMade
    /\ \E h \in Invocations : Log[h].who = "A"

\* ------------------------------------------- claims about startAll's order
\* the handlers that the patches of descriptor d put under key k, in order
HandlersUnder(d, k) ==
    SelectSeq([j \in 1..Len(d.patches) |-> MakeHandler(d.name, d.patches[j])],
              LAMBDA h : Key(EventName(h.patch.bridge), h.patch.method) = k)

\* key k's chain when the enabled plugins registered at positions i..upto
\* have been started one after the other on an empty registry
RECURSIVE ChainByRegistration(_, _, _)
ChainByRegistration(k, i, upto) ==
    IF i > upto THEN <<>>
    ELSE (IF plugins[i].name \in SetOn THEN HandlersUnder(plugins[i], k)
          ELSE <<>>) \o ChainByRegistration(k, i + 1, upto)

AllKeys ==
    {Key(EventName(b), m) : b \in Bridges, m \in Methods}

ChainOf(k) == IF k \in DOMAIN eventHandlers THEN eventHandlers[k] ELSE <<>>

\* C24: a startAll called on a loader with nothing active and nothing
\* installed works through the registration order one plugin at a time.
\* While it is at plugin k (hook pending or just completed) the registry
\* holds the handlers of the enabled plugins up to k in registration order and
\* nothing of a later plugin; when it has completed, every chain is in the
\* registration order of the enabled plugins.
C24_StartAllSequential ==
    /\ \A i \in TaskIds :
          (tasks[i].op = "startAll" /\ tasks[i].fresh /\ tasks[i].before = {}) =>
              \A k \in AllKeys :
                  ChainOf(k) = ChainByRegistration(k, 1, tasks[i].idx)
    /\ (lastDone.op = "startAll" /\ lastDone.fresh /\ lastDone.before = {}) =>
          \A k \in AllKeys :
              ChainOf(k) = ChainByRegistration(k, 1, Len(plugins))

\* startAll is suspended at the hook of the second of three enabled plugins,
\* registered with C first: the shared key holds C's handler, then the
\* second plugin's, and nothing of the third
C24_Witness ==
    \E i \in TaskIds :
        /\ tasks[i].op = "startAll"
        /\ tasks[i].pc = "hook"
        /\ tasks[i].idx = 2
        /\ tasks[i].fresh
        /\ Len(plugins) = 3
        /\ SetOn = Registered
        /\ plugins[1].name = "C"
        /\ Len(ChainOf("bridge:webRtcToNative:setMute")) = 2

\* C25: while the start hook of the plugin startAll is at has not settled,
\* startAll has not completed, no plugin registered after it has been started
\* (on a loader with nothing installed: none of them owns a handler or is
\* active) and the enabled plugins before it whose hook resolved are active;
\* when every awaited hook settles, a startAll in flight completes (checked
\* for a startAll called on an empty registry, whose installs stay within
\* MaxChain).
StartAllInFlight == \E i \in TaskIds : tasks[i].op = "startAll"
StartAllFresh == \E i \in TaskIds : tasks[i].op = "startAll" /\ tasks[i].fresh

C25_Stalled ==
    \A i \in TaskIds :
        (tasks[i].op = "startAll" /\ tasks[i].pc = "hook") =>
            /\ lastDone.op # "startAll"
            /\ (tasks[i].fresh /\ tasks[i].before = {}) =>
                  \A m \in 1..Len(plugins) :
                      /\ m > tasks[i].idx =>
                            /\ plugins[m].name \notin activePlugins
                            /\ OwnedBy(plugins[m].name) = {}
                      /\ (/\ m < tasks[i].idx
                          /\ plugins[m].name \in SetOn
                          /\ plugins[m].name \notin tasks[i].failed) =>
                            plugins[m].name \in activePlugins

C25_StallsAndCompletes ==
    /\ []C25_Stalled
    /\ StartAllFresh ~> ~StartAllInFlight

\* startAll waits for the hook of the second of three enabled plugins: the
\* first is active, the third has nothing installed
C25_Witness ==
    \E i \in TaskIds :
        /\ tasks[i].op = "startAll"
        /\ tasks[i].pc = "hook"
        /\ tasks[i].idx = 2
        /\ tasks[i].fresh
        /\ Len(plugins) = 3
        /\ SetOn = Registered
        /\ plugins[1].name \in activePlugins
        /\ OwnedBy(plugins[3].name) = {}
\* SpecDispatch: the page of Spec with seven plugins registered whose before
\* functions throw, call a bridge method, or call loader.start / loader.stop;
\* plugins are started and stopped, each call awaited before the next is
\* made, and the host calls bridge methods between them.
InitDispatch ==
    /\ plugins = DispatchPlugins
    /\ activePlugins = {}
    /\ eventHandlers = <<>>
    /\ settings = InitialSettings
    /\ cssInjected = {}
    /\ tasks = [i \in TaskIds |-> Idle]
    /\ lastDone = NoCall
    /\ pluginLoader = "loader"
    /\ installed = TRUE
    /\ slots = [s \in SlotNames |-> Wrapped(s)]
    /\ hostWrites = [s \in SlotNames |-> NoWrites]
    /\ lastCall = NoCallYet
    /\ RestUnused

NextDispatch ==
    \/ \E name \in DispatchNames : NoneInFlight /\ StartCall(name)
    \/ \E i \in TaskIds : StartResume(i, "ok")
    \/ \E name \in DispatchNames : NoneInFlight /\ StopCall(name)
    \/ \E i \in TaskIds : StopResume(i, "ok")
    \/ \E s \in SlotNames, method \in Methods, args \in CallArgs :
          NoneInFlight /\ HostCall(s, method, args)

SpecDispatch == InitDispatch /\ [][NextDispatch]_vars
\* ---- C26
\* the entries of a call's log made by the call itself, not by a bridge call
\* nested in it
Outer(trace) == {i \in 1..Len(trace) : trace[i].depth = 0}

\* the invocations, by emit, of handlers that threw
ThrowingInvocations(trace) ==
    {i \in Outer(trace) : trace[i].ev = "handler" /\ trace[i].res = Thrown}

\* a before that called loader.start or loader.stop ran during the call
LifecycleCalled(trace) ==
    \E i \in 1..Len(trace) :
        /\ trace[i].ev = "before"
        /\ trace[i].patch.before \in {"startsK", "stopsK"}

\* C26: when a handler throws during emit, nothing of the dispatch runs after
\* it (what the log holds behind the throwing invocation belongs to that
\* handler's own before: no later handler, no after, no original), the
\* wrapped call throws to its caller, the active set is as it was, and so is
\* the registry unless a handler of the same call called loader.start itself.
C26_ThrowAbortsDispatch ==
    [][\A i \in ThrowingInvocations(lastCall'.trace) :
          /\ \A j \in Outer(lastCall'.trace) :
                 /\ lastCall'.trace[j].ev # "original"
                 /\ j > i => /\ lastCall'.trace[j].pos = lastCall'.trace[i].pos
                             /\ lastCall'.trace[j].ev \in
                                    {"before", "nested", "returned"}
          /\ lastCall'.ret = Thrown
          /\ activePlugins' = activePlugins
          /\ plugins' = plugins
          /\ ~LifecycleCalled(lastCall'.trace) =>
                 /\ eventHandlers' = eventHandlers
                 /\ cssInjected' = cssInjected
                 /\ tasks' = tasks]_vars

\* a call whose chain had a handler behind the one that threw, with handlers
\* installed and a plugin active
C26_Witness ==
    /\ \E i \in ThrowingInvocations(lastCall.trace) :
           lastCall.trace[i].pos < Len(lastCall.chain)
    /\ lastCall.ret = Thrown
    /\ activePlugins # {}
\* ---- C27
\* the places of the log where a bridge call made by a handler of the call
\* in dispatch returned without throwing
NestedReturns ==
    {i \in Outer(Log) : Log[i].ev = "returned" /\ Log[i].res # Thrown}

\* where the nested call that returned at i began
NestedBegin(i) ==
    CHOOSE b \in Outer(Log) :
        /\ b < i
        /\ Log[b].ev = "nested"
        /\ \A j \in (b + 1)..(i - 1) : Log[j].depth > 0

\* C27: a bridge call B made by a handler during the dispatch of call A has
\* an event of its own (B's emit and B's first handler get B's arguments, B's
\* trampoline settles B's return from B's event); A's event is, behind B,
\* what it was before B (the handler's after gets the args its before got
\* and A's undefined returnValue, and A is not cancelled by B's veto); the
\* handlers of A's chain behind the calling one are all invoked, and A's
\* original runs as A's method and settles A's return.
C27_Reentrant ==
    \A i \in NestedReturns :
        LET b == NestedBegin(i)
            p == Log[i].pos
            bf == b - 1
        IN /\ Log[bf].ev = "before" /\ Log[bf].pos = p /\ Log[bf].depth = 0
           /\ Log[b + 1].ev = "emit" /\ Log[b + 1].args = Log[b].args
           /\ \A j \in (b + 1)..(i - 1) :
                  (Log[j].ev = "handler" /\ Log[j].depth = 1 /\ Log[j].pos = 1)
                      => Log[j].args = Log[b].args
           /\ Log[i - 1].depth = 1
           /\ Log[i - 1].ev \in {"cancelled", "original"}
           /\ Log[i - 1].ev = "cancelled" => Log[i].res = Log[i - 1].res
           /\ Log[i - 1].ev = "original" =>
                  /\ Log[i].res = Log[i - 1].res
                  /\ Log[i - 1].res =
                         OrigResult(Log[i - 1].who, Log[b].who, Log[i - 1].args)
           /\ Log[i + 1].ev = "after" /\ Log[i + 1].pos = p
           /\ Log[i + 1].depth = 0
           /\ Log[i + 1].args = Log[bf].args
           /\ Log[i + 1].res = Undefined
           /\ Log[bf - 1].ev = "handler" /\ Log[bf - 1].res = NotCancelled
           /\ \A q \in (p + 1)..Len(lastCall.chain) :
                  \E j \in Outer(Log) :
                      /\ j > i
                      /\ Log[j].ev = "handler"
                      /\ Log[j].pos = q
                      /\ Log[j].who = lastCall.chain[q].plugin
           /\ \E o \in Outer(Log) :
                  /\ o > i
                  /\ Log[o].ev = "original"
                  /\ Log[o].res = OrigResult(Log[o].who, lastCall.method,
                                             Log[o].args)
                  /\ lastCall.ret = Log[o].res

\* a handler of kick(false) called setMute(true), which a veto cancelled,
\* and another handler stood behind it in kick's chain
C27_Witness ==
    \E i \in NestedReturns :
        /\ Log[i - 1].ev = "cancelled"
        /\ Log[i].pos < Len(lastCall.chain)
        /\ lastCall.method = "kick"
        /\ lastCall.args = <<JsFalse>>
\* ---- C28
\* the handlers emit invoked for the call itself, in the order it invoked them
InvokedByCall ==
    LET idx == SelectSeq([j \in LogIdx |-> j],
                         LAMBDA j : Log[j].depth = 0 /\ Log[j].ev = "handler")
    IN [n \in 1..Len(idx) |-> MakeHandler(Log[idx[n]].who, Log[idx[n]].patch)]

\* C28: a dispatch invokes handlers of the list the key had when the dispatch
\* began, and no others: what a handler's start or stop of another plugin
\* does to the list shows from the next emit on.
C28_DispatchOnSnapshot ==
    /\ Len(InvokedByCall) <= Len(lastCall.chain)
    /\ \A n \in 1..Len(InvokedByCall) : InvokedByCall[n] = lastCall.chain[n]
\* ---- C29
\* the invocations, by emit, of handlers for the call itself that returned
\* and left the event uncancelled
Unvetoed ==
    {j \in Outer(Log) : Log[j].ev = "handler" /\ Log[j].res = NotCancelled}

\* the arguments a handler's before leaves behind, given those it got: the
\* negating before turns its argument round, the others leave it alone
C29_Left(j) ==
    IF Log[j].patch.replace = "none" /\ Log[j].patch.before = "flip"
    THEN <<IF Log[j].args[1] = JsTrue THEN JsFalse ELSE JsTrue>>
    ELSE Log[j].args

\* what emit or the trampoline did next for the call itself
C29_Follows(j, k) ==
    /\ k \in Outer(Log)
    /\ k > j
    /\ Log[k].ev \in {"handler", "passed"}
    /\ \A m \in Outer(Log) :
           (j < m /\ m < k) => Log[m].ev \notin {"handler", "passed"}

\* C29: a handler that returns without a veto hands the args as its before
\* left them to the next handler of the chain; behind the last handler the
\* trampoline finds them in the event and invokes the original with them.
C29_SharedEvent ==
    \A j \in Unvetoed :
        \E k \in Outer(Log) :
            /\ C29_Follows(j, k)
            /\ Log[k].args = C29_Left(j)
            /\ Log[k].ev = "passed" =>
                   \E o \in Outer(Log) :
                       /\ o > k
                       /\ Log[o].ev = "original"
                       /\ Log[o].args = C29_Left(j)
                       /\ Log[o].res = OrigResult(Log[o].who, lastCall.method,
                                                  C29_Left(j))

\* the negating before ran first of three handlers; the two behind it and
\* the original got the negated argument
C29_Witness ==
    /\ Len(lastCall.chain) = 3
    /\ lastCall.chain[1].patch.before = "flip"
    /\ Cardinality(Unvetoed) = 3
    /\ \E o \in Outer(Log) :
           Log[o].ev = "original" /\ Log[o].args # lastCall.args
\* ---- C30
\* the slots that held an object when installBridgeProxy ran
HeldAtInstall == {s \in SlotNames : installed /\ ~hostWrites[s].deferred}

\* what C30 says of the page at any time after installBridgeProxy
C30_PassesThrough ==
    \A s \in HeldAtInstall :
        /\ slots[s].kind = "data"
        /\ hostWrites[s].n > 0 => slots[s].value = hostWrites[s].last
        /\ (hostWrites[s].n > 0 /\ lastCall.slot = s
              /\ hostWrites[s].last.layers = <<>>) =>
               /\ Emits = {}
               /\ Len(Log) = 1
               /\ Log[1].ev = "original"
               /\ Log[1].who = hostWrites[s].last.obj
               /\ lastCall.ret = Log[1].res

\* C30: installBridgeProxy puts, into a slot that holds an object, the proxy
\* around that object as an ordinary value; the slot stays an ordinary
\* property (no getter / setter pair), so an object the host assigns to it
\* later is what the slot then holds, and a call of a method of a host
\* object so assigned goes to the object with no emit.
C30_PresentSlotWrappedOnce ==
    [][/\ (~installed /\ installed') =>
              \A s \in SlotNames :
                  IsObject(slots[s].value) =>
                      /\ slots'[s].kind = "data"
                      /\ slots'[s].value.obj = slots[s].value.obj
                      /\ slots'[s].value.layers =
                             Append(slots[s].value.layers, EventName(s))
                      /\ ~hostWrites'[s].deferred
       /\ C30_PassesThrough']_vars

\* with the loader wired, the host assigned another object to a slot that
\* held one at install, and called a method through the slot
C30_Witness ==
    \E s \in HeldAtInstall :
        /\ hostWrites[s].n > 0
        /\ hostWrites[s].last = Raw("o2")
        /\ pluginLoader = "loader"
        /\ lastCall.slot = s
\* ---- C31
\* C31: a wrapped call invokes a handler only if the handler's patch names
\* the bridge the call went through and the method that was called.
C31_KeyIsolation ==
    \A i \in Invocations :
        Log[i].depth = 0 =>
            /\ Log[i].patch.bridge = lastCall.slot
            /\ Log[i].patch.method = lastCall.method

\* a call that invoked a handler while the registry held handlers of a patch
\* on the other bridge and of a patch of another method
C31_Witness ==
    /\ \E i \in Invocations : Log[i].depth = 0
    /\ \E k \in DOMAIN eventHandlers : \E n \in 1..Len(eventHandlers[k]) :
           eventHandlers[k][n].patch.bridge # lastCall.slot
    /\ \E k \in DOMAIN eventHandlers : \E n \in 1..Len(eventHandlers[k]) :
           eventHandlers[k][n].patch.method # lastCall.method
\* ---- C32
\* the key a call's emit looks up
CallKey(call) == Key(EventName(call.slot), call.method)

\* C32: a wrapped call during which no handler called loader.start or
\* loader.stop leaves the registry (its keys and each key's list), the
\* registered plugins and the active set as they were, however its emit
\* ended; when the call's key has no handlers, emit invokes none, the event
\* comes back uncancelled with the caller's arguments, and the original runs.
C32_EmitFrame ==
    [][(lastCall'.slot # "" /\ ~LifecycleCalled(lastCall'.trace)) =>
          /\ eventHandlers' = eventHandlers
          /\ plugins' = plugins
          /\ activePlugins' = activePlugins
          /\ CallKey(lastCall') \notin DOMAIN eventHandlers =>
                 /\ Len(lastCall'.trace) = 3
                 /\ lastCall'.trace[1].ev = "emit"
                 /\ lastCall'.trace[2].ev = "passed"
                 /\ lastCall'.trace[2].args = lastCall'.args
                 /\ lastCall'.trace[2].res = Undefined
                 /\ lastCall'.trace[3].ev = "original"]_vars

\* an emit for a key without handlers, with handlers under another key and
\* a plugin active
C32_Witness ==
    /\ lastCall.slot # ""
    /\ CallKey(lastCall) \notin DOMAIN eventHandlers
    /\ eventHandlers # <<>>
    /\ activePlugins # {}
    /\ \E i \in LogIdx : Log[i].ev = "emit"
\* SpecPanel: the catalogue registered; plugins are started, the user opens
\* the plugins page and clicks toggles, each click's call completing before
\* the next click.
InitPanel ==
    /\ plugins = <<PluginA, PluginB, PluginC>>
    /\ activePlugins = {}
    /\ eventHandlers = <<>>
    /\ settings = InitialSettings
    /\ cssInjected = {}
    /\ tasks = [i \in TaskIds |-> Idle]
    /\ lastDone = NoCall
    /\ pluginLoader = "loader"
    /\ installed = TRUE
    /\ slots = [s \in SlotNames |-> Wrapped(s)]
    /\ hostWrites = [s \in SlotNames |-> NoWrites]
    /\ lastCall = NoCallYet
    /\ page = NoPage
    /\ HostUntouched

NextPanel ==
    \/ \E name \in Names : ~page.built /\ NoneInFlight /\ StartCall(name)
    \/ \E i \in TaskIds, outcome \in {"ok", "throw"} :
          ~page.built /\ StartResume(i, outcome)
    \/ NoneInFlight /\ BuildPluginsPage
    \/ \E n \in Names : NoneInFlight /\ ToggleChange(n)
    \/ \E i \in TaskIds, outcome \in {"ok", "throw"} : ToggleResume(i, outcome)

SpecPanel == InitPanel /\ [][NextPanel]_vars

\* ---- C33
\* C33: on the plugins page, once every toggle's call has completed, a row's
\* badge reads "Active" exactly when the plugin is in the active set.
C33_BadgeIffActive ==
    (page.built /\ \A n \in DOMAIN page.rows : page.rows[n].pending = "none") =>
        \A n \in DOMAIN page.rows :
            page.rows[n].badge = "Active" <=> n \in activePlugins
\* ---- C34
\* the names in this.plugins
RegisteredNames(reg) == {reg[i].name : i \in 1..Len(reg)}

\* a start or stop of a name that is not registered has just returned
UnknownCall(done, reg) ==
    done.op \in {"start", "stop"} /\ done.name \notin RegisteredNames(reg)

\* C34: the active plugins are registered ones; every step keeps the
\* descriptors it found, in their places; a start or stop of an unknown name
\* installs no handler, injects no style, suspends at no hook and leaves the
\* active set as it was.
C34_ActiveWithinRegistered ==
    [][/\ activePlugins' \subseteq RegisteredNames(plugins')
       /\ Len(plugins') >= Len(plugins)
       /\ \A i \in 1..Len(plugins) : plugins'[i] = plugins[i]
       /\ UnknownCall(lastDone', plugins') =>
              /\ lastDone'.outcome = "noop"
              /\ eventHandlers' = eventHandlers
              /\ cssInjected' = cssInjected
              /\ tasks' = tasks
              /\ activePlugins' = activePlugins]_vars

\* a stop of an unknown name has returned while plugins were registered,
\* one of them active with handlers installed
C34_Witness ==
    /\ UnknownCall(lastDone, plugins)
    /\ lastDone.op = "stop"
    /\ Len(plugins) >= 2
    /\ activePlugins # {}
    /\ eventHandlers # <<>>
\* ---- C35
\* the number of handlers in the registry that carry plugin name's tag
HandlersOf(name) ==
    HandlerCount([k \in DOMAIN eventHandlers |->
                     SelectSeq(eventHandlers[k], LAMBDA h : h.plugin = name)])

\* C35: while no start or stop is in flight, the registry holds at most as
\* many handlers of a registered plugin as its descriptor has patches.
C35_BoundedHandlers ==
    NoneInFlight =>
        \A i \in 1..Len(plugins) :
            HandlersOf(plugins[i].name) <= Len(plugins[i].patches)

\* ------------------------------------------ claims about overlapping stops
\* the stop calls on a plugin that are suspended at their await
StopsPending(name) ==
    {i \in TaskIds : tasks[i].op = "stop" /\ tasks[i].name = name}

\* C36: however stop calls on an active plugin interleave, its stop hook is
\* not invoked twice for one activation, and once every call has completed the
\* plugin is inactive and has no handler in the registry.
C36_StopHookOnce ==
    /\ \A i \in 1..Len(plugins) :
          plugins[i].stop => Cardinality(StopsPending(plugins[i].name)) <= 1
    /\ (NoneInFlight /\ lastDone.op = "stop" /\ lastDone.outcome = "ok") =>
          /\ lastDone.name \notin activePlugins
          /\ HandlersOf(lastDone.name) = 0
\* ------------------------------------- claims about a start crossing a stop
\* SpecCross: a start and a stop of the same plugin cross, one suspended at its
\* hook while the other is called; no two starts and no two stops of one
\* plugin overlap, and every hook resolves.
NextCross ==
    \/ \E d \in Catalogue : Register(d)
    \/ \E name \in Names : StartsPending(name) = {} /\ StartCall(name)
    \/ \E i \in TaskIds : StartResume(i, "ok")
    \/ \E name \in Names : StopsPending(name) = {} /\ StopCall(name)
    \/ \E i \in TaskIds : StopResume(i, "ok")

SpecCross == Init /\ [][NextCross]_vars

\* no start and no stop of the plugin is suspended
Settled(name) == StartsPending(name) = {} /\ StopsPending(name) = {}

\* C37: a stop called while a start of the same plugin is suspended at its
\* hook returns at once, and the start then completes with the plugin active
\* and its handlers installed; a start called while a stop is suspended
\* returns at once, and the stop then completes with the plugin inactive. Once
\* the calls have completed, the plugin's handlers are in the registry if and
\* only if it is active.
C37_CrossedCalls ==
    /\ \A n \in Names :
          /\ StartsPending(n) # {} => StopIsNoop(n) /\ StopsPending(n) = {}
          /\ StopsPending(n) # {} => StartIsNoop(n) /\ StartsPending(n) = {}
    /\ (lastDone.op = "start" /\ lastDone.outcome = "ok") =>
          /\ lastDone.name \in activePlugins
          /\ HandlersOf(lastDone.name) = Len(Get(lastDone.name).patches)
    /\ (lastDone.op = "stop" /\ lastDone.outcome = "ok") =>
          /\ lastDone.name \notin activePlugins
          /\ HandlersOf(lastDone.name) = 0
    /\ \A i \in 1..Len(plugins) :
          Settled(plugins[i].name) =>
              HandlersOf(plugins[i].name) =
                  IF plugins[i].name \in activePlugins
                  THEN Len(plugins[i].patches) ELSE 0

\* stop(A) has just returned at once while start(A) is suspended at A's hook
\* with A's handler installed
C37_Witness ==
    /\ lastDone.op = "stop"
    /\ lastDone.name = "A"
    /\ lastDone.outcome = "noop"
    /\ StartsPending("A") # {}
    /\ HandlersOf("A") = 1
\* ------------------------------------ claims about calls before the wiring
\* SpecPreload: the preload's order. The proxies are installed first, then the
\* loader is wired in, then plugins are registered and started; the host calls
\* through the wrappers at any time.
InitPreload ==
    /\ plugins = <<>>
    /\ activePlugins = {}
    /\ eventHandlers = <<>>
    /\ settings = InitialSettings
    /\ cssInjected = {}
    /\ tasks = [i \in TaskIds |-> Idle]
    /\ lastDone = NoCall
    /\ pluginLoader = "null"
    /\ installed = TRUE
    /\ slots = [s \in SlotNames |-> Wrapped(s)]
    /\ hostWrites = [s \in SlotNames |-> NoWrites]
    /\ lastCall = NoCallYet
    /\ RestUnused

Wired == pluginLoader = "loader"

NextPreload ==
    \/ SetPluginLoader
    \/ \E d \in Catalogue : Wired /\ NoneInFlight /\ Register(d)
    \/ \E name \in Names : Wired /\ NoneInFlight /\ StartCall(name)
    \/ \E i \in TaskIds, outcome \in {"ok", "throw"} : StartResume(i, outcome)
    \/ \E name \in Names : Wired /\ NoneInFlight /\ StopCall(name)
    \/ \E i \in TaskIds, outcome \in {"ok", "throw"} : StopResume(i, outcome)
    \/ \E s \in SlotNames, method \in Methods, args \in CallArgs :
          HostCall(s, method, args)

SpecPreload == InitPreload /\ [][NextPreload]_vars

\* C38: a call through a wrapper made while no loader is wired in reaches no
\* handler and emits nothing: the original is invoked once with the caller's
\* arguments and its result is returned. Once the loader is wired, a call
\* through the same wrapper is emitted to the loader and runs the handlers
\* registered under its key.
C38_LateWiring ==
    CallMade =>
        IF ~Wired
        THEN /\ Len(Log) = 1
             /\ Log[1].ev = "original"
             /\ Log[1].who = slots[lastCall.slot].value.obj
             /\ Log[1].args = lastCall.args
             /\ lastCall.ret = OrigResult(Log[1].who, lastCall.method,
                                          lastCall.args)
        ELSE /\ Log[1].ev = "emit"
             /\ Log[1].who = EventName(lastCall.slot)
             /\ lastCall.chain # <<>> =>
                   /\ Log[2].ev = "handler"
                   /\ Log[2].who = lastCall.chain[1].plugin
                   /\ Log[2].patch = lastCall.chain[1].patch

\* a call through the wrapper created before the wiring runs a handler of A
C38_Witness ==
    /\ CallMade
    /\ Wired
    /\ slots[lastCall.slot] = Wrapped(lastCall.slot)
    /\ \E i \in Invocations : Log[i].who = "A"
\* ---------------------------------------- the plugins that wrap the network
SentryBlocker ==
    [name |-> "sentry-blocker", patches |-> <<>>, css |-> FALSE,
     start |-> TRUE, stop |-> TRUE]
SilentTyping ==
    [name |-> "silent-typing", patches |-> <<>>, css |-> FALSE,
     start |-> TRUE, stop |-> TRUE]

\* navigator.sendBeacon.bind(navigator)
Bind(b) == [b EXCEPT !.binds = @ + 1]

\* sentry-blocker's start: save what is installed, install the wrappers
SentryStart(n) ==
    [n EXCEPT !.saved["sentry-blocker"] =
                  [fetch |-> n.fetch, open |-> n.open, beacon |-> Bind(n.beacon)],
              !.fetch = "sentry-blocker",
              !.open = "sentry-blocker",
              !.beacon = Beacon("sentry-blocker", 0),
              !.ran = @ \cup {"sentry-blocker"}]

\* silent-typing's start
TypingStart(n) ==
    [n EXCEPT !.saved["silent-typing"].fetch = n.fetch,
              !.saved["silent-typing"].open = n.open,
              !.fetch = "silent-typing",
              !.open = "silent-typing",
              !.ran = @ \cup {"silent-typing"}]

\* if (original) { target = original; original = null }
Restore(n, p, field) ==
    IF n.saved[p][field] # NoneSaved[field]
    THEN [n EXCEPT ![field] = n.saved[p][field],
                   !.saved[p][field] = NoneSaved[field]]
    ELSE n

SentryStop(n) ==
    Restore(Restore(Restore(n, "sentry-blocker", "fetch"),
                    "sentry-blocker", "open"),
            "sentry-blocker", "beacon")

TypingStop(n) ==
    Restore(Restore(n, "silent-typing", "fetch"), "silent-typing", "open")

\* plugin.start?.() / plugin.stop?.() of the named plugin
StartHook(name, n) ==
    IF name = "sentry-blocker" THEN SentryStart(n)
    ELSE IF name = "silent-typing" THEN TypingStart(n)
    ELSE n

StopHook(name, n) ==
    IF name = "sentry-blocker" THEN SentryStop(n)
    ELSE IF name = "silent-typing" THEN TypingStop(n)
    ELSE n

\* isSentryUrl / isTypingIndicatorUrl
Urls == {"sentry.io", "typing", "other"}
Blocks(p, url) ==
    \/ p = "sentry-blocker" /\ url = "sentry.io"
    \/ p = "silent-typing" /\ url = "typing"

\* a wrapper of fetch answers a blocked url itself; a wrapper of open passes
\* about:blank on
Passes(field, p, url) ==
    IF field = "open" /\ Blocks(p, url) THEN "about:blank" ELSE url

\* what a request through function fn comes to: the host's function takes it,
\* a wrapper blocks it or calls its plugin's saved original, which may be null
\* or the wrapper itself
RECURSIVE Through(_, _, _, _, _)
Through(n, field, fn, url, fuel) ==
    IF fn = "host" THEN "host:" \o url
    ELSE IF fn = "null" THEN "TypeError"
    ELSE IF fuel = 0 THEN "RangeError"
    ELSE IF field = "fetch" /\ Blocks(fn, url) THEN "blocked"
    ELSE Through(n, field, n.saved[fn][field], Passes(field, fn, url), fuel - 1)

Calls == Cardinality(Interceptors) + 1
\* loader.start(name) up to its await: the start hook runs before the call
\* suspends
InterceptStart(name) ==
    /\ StartSync(name)
    /\ StartIsNoop(name) \/ name # "sentry-blocker" \/ net.beacon.binds < MaxBinds
    /\ net' = [(IF StartIsNoop(name) THEN net ELSE StartHook(name, net))
                 EXCEPT !.last = NoRequest]
    /\ UNCHANGED <<settings, page, disk>>

InterceptStarted(i) ==
    /\ StartAsync(i, "ok")
    /\ net' = [net EXCEPT !.last = NoRequest]
    /\ UNCHANGED <<settings, page, disk>>

InterceptStop(name) ==
    /\ StopSync(name)
    /\ net' = [(IF StopIsNoop(name) THEN net ELSE StopHook(name, net))
                 EXCEPT !.last = NoRequest]
    /\ UNCHANGED <<settings, page, disk>>

InterceptStopped(i) ==
    /\ StopAsync(i, "ok")
    /\ net' = [net EXCEPT !.last = NoRequest]
    /\ UNCHANGED <<settings, page, disk>>

\* the host calls window.fetch(url) or xhr.open(method, url)
Request(via, url) ==
    /\ net' = [net EXCEPT !.last = [via |-> via, url |-> url,
                                     outcome |-> Through(net, via, net[via], url,
                                                         Calls)]]
    /\ UNCHANGED <<plugins, activePlugins, eventHandlers, settings, page, disk,
                   cssInjected, tasks, lastDone, bridgeVars, lastCall>>

\* SpecIntercepts: sentry-blocker and silent-typing are registered; each start
\* and stop is awaited before the next, in any order; the host sends requests
\* in between.
InitIntercepts ==
    /\ plugins = <<SentryBlocker, SilentTyping>>
    /\ activePlugins = {}
    /\ eventHandlers = <<>>
    /\ settings = InitialSettings
    /\ cssInjected = {}
    /\ tasks = [i \in TaskIds |-> Idle]
    /\ lastDone = NoCall
    /\ pluginLoader = "loader"
    /\ installed = TRUE
    /\ slots = [s \in SlotNames |-> Wrapped(s)]
    /\ hostWrites = [s \in SlotNames |-> NoWrites]
    /\ lastCall = NoCallYet
    /\ RestUnused

NextIntercepts ==
    \/ \E name \in Interceptors : NoneInFlight /\ InterceptStart(name)
    \/ \E i \in TaskIds : InterceptStarted(i)
    \/ \E name \in Interceptors : NoneInFlight /\ InterceptStop(name)
    \/ \E i \in TaskIds : InterceptStopped(i)
    \/ \E via \in {"fetch", "open"}, url \in Urls : Request(via, url)

SpecIntercepts == InitIntercepts /\ [][NextIntercepts]_vars

\* the wrappers installed whose plugin's saved original is null
Orphaned ==
    {f \in {"fetch", "open"} :
        net[f] \in Interceptors /\ net.saved[net[f]][f] = "null"}

\* C39: once sentry-blocker and silent-typing have both been started and both
\* are stopped again, window.fetch and XMLHttpRequest.prototype.open are the
\* host's functions and no installed wrapper holds a null saved original.
C39_OriginalsRestored ==
    (net.ran = Interceptors /\ activePlugins = {} /\ NoneInFlight) =>
        /\ net.fetch = "host"
        /\ net.open = "host"
        /\ Orphaned = {}
\* ------------------------------------------------------- the HTML patcher
\* the tokens of the three injected tags, each of which holds INJECTION_MARKER
MarkerTokens == {"settingsTag", "scriptTag", "linkTag"}

\* line.includes(INJECTION_MARKER)
LineIncludes(line, tokens) == \E i \in 1..Len(line) : line[i] \in tokens

\* content.includes(INJECTION_MARKER)
Includes(content, tokens) ==
    \E i \in 1..Len(content) : LineIncludes(content[i], tokens)

\* the first line holding the token, and the token's first place in it
FirstLine(content, token) ==
    CHOOSE i \in 1..Len(content) :
        /\ LineIncludes(content[i], {token})
        /\ \A j \in 1..(i - 1) : ~LineIncludes(content[j], {token})
FirstAt(line, token) ==
    CHOOSE i \in 1..Len(line) :
        line[i] = token /\ \A j \in 1..(i - 1) : line[j] # token

\* content.replace("</head>", `    ${injection}\n  </head>`): the first
\* </head> gives way to the three tags, one per line, and an indented </head>
Inject(content) ==
    IF ~Includes(content, {"</head>"}) THEN content
    ELSE LET i == FirstLine(content, "</head>")
             k == FirstAt(content[i], "</head>")
         IN SubSeq(content, 1, i - 1) \o
            << SubSeq(content[i], 1, k - 1) \o <<"    ", "settingsTag">>,
               <<"    ", "scriptTag">>,
               <<"    ", "linkTag">>,
               <<"  ", "</head>">> \o SubSeq(content[i], k + 1, Len(content[i])) >> \o
            SubSeq(content, i + 1, Len(content))

\* split("\n").filter(line => !line.includes(INJECTION_MARKER)).join("\n")
Strip(content) ==
    SelectSeq(content, LAMBDA line : ~LineIncludes(line, MarkerTokens))

\* install on one target file
InstallFile(file) ==
    IF Includes(file.content, MarkerTokens) THEN file
    ELSE File(Inject(file.content),
              IF file.backup = NoFile THEN file.content ELSE file.backup,
              IF Includes(Inject(file.content), MarkerTokens)
              THEN file.content ELSE file.pre)

\* uninstall on one target file
UninstallFile(file) ==
    IF file.backup # NoFile THEN File(file.backup, NoFile, NoFile)
    ELSE IF Includes(file.content, MarkerTokens)
         THEN File(Strip(file.content), NoFile, NoFile)
         ELSE File(file.content, NoFile, NoFile)

PatcherFrame ==
    UNCHANGED <<plugins, activePlugins, eventHandlers, settings, page, net,
                cssInjected, tasks, lastDone, bridgeVars, lastCall>>

Install ==
    /\ disk' = [files |-> [f \in Files |-> InstallFile(disk.files[f])],
                was |-> disk.files, last |-> "install"]
    /\ PatcherFrame

Uninstall ==
    /\ disk' = [files |-> [f \in Files |-> UninstallFile(disk.files[f])],
                was |-> disk.files, last |-> "uninstall"]
    /\ PatcherFrame

\* the host writes one of its pages over a target file (an update of Root)
HostRewrite(f, v) ==
    /\ disk' = [files |-> [disk.files EXCEPT ![f].content = v],
                was |-> disk.files, last |-> "rewrite"]
    /\ PatcherFrame

\* SpecPatcher: install, uninstall and host rewrites of the target files in
\* any order
InitPatcher ==
    /\ plugins = <<>>
    /\ activePlugins = {}
    /\ eventHandlers = <<>>
    /\ settings = InitialSettings
    /\ cssInjected = {}
    /\ tasks = [i \in TaskIds |-> Idle]
    /\ lastDone = NoCall
    /\ pluginLoader = "null"
    /\ installed = FALSE
    /\ slots = [s \in SlotNames |-> Absent]
    /\ hostWrites = [s \in SlotNames |-> NoWrites]
    /\ lastCall = NoCallYet
    /\ RestUnused

NextPatcher ==
    \/ Install
    \/ Uninstall
    \/ \E f \in Files, v \in HostPages : HostRewrite(f, v)

SpecPatcher == InitPatcher /\ [][NextPatcher]_vars

\* C40: install leaves a file that holds the marker, and its backup, as they
\* are; uninstall leaves each file with the content it had just before the
\* last install that injected into it, with no backup and no marker.
C40_RoundTrip ==
    \A f \in Files :
        /\ (disk.last = "install" /\ Includes(disk.was[f].content, MarkerTokens)) =>
              /\ disk.files[f].content = disk.was[f].content
              /\ disk.files[f].backup = disk.was[f].backup
        /\ disk.last = "uninstall" =>
              /\ disk.files[f].backup = NoFile
              /\ ~Includes(disk.files[f].content, MarkerTokens)
              /\ disk.was[f].pre # NoFile =>
                    disk.files[f].content = disk.was[f].pre

====
